---- MODULE Spec2Model ----
(***************************************************************************)
(* Model of the snapshot-read protocol of solana-hydrant                   *)
(* (src/src/snapshot.rs): OrderedSet, Snapshot::get_account, the adaptive  *)
(* chunked fetch SnapshotClient::get_multiple_accounts_chunked and the     *)
(* retry loop SnapshotClient::with_snapshot, run against an RPC node that  *)
(* rejects every GetMultipleAccounts call of more than                     *)
(* rpc_max_multiple_accounts addresses.                                    *)
(*                                                                         *)
(* The callback `f` handed to with_snapshot is the environment.  It reads  *)
(* accounts through Snapshot::get_account; when a read fails it returns the *)
(* error (`?` in daemon.rs:72-73 and snapshot.rs:169) or goes on without   *)
(* the account; in the end it returns Ok, an error of its own (bincode, a  *)
(* failed get_version) or MissingValidatorIdentity.                        *)
(***************************************************************************)
EXTENDS Integers, Sequences, FiniteSets, TLC

\* ------------------------------------------------------------------ bounds

\* Addresses 1..MaxKeys.  The callbacks read addresses 1 and 2 in any order,
\* and the higher addresses only in a walk 1, 2, 3, ... (a list walk), so
\* that long query sets are reached without enumerating every order of
\* every address.
MaxKeys == 4
\* The hidden server limit ranges over 1..MaxLimit.
MaxLimit == 2
\* Cap on the fetch rounds after which a callback stops raising
\* MissingValidatorIdentity (with_snapshot itself has no cap).
MaxSideInfoRounds == 2
\* Times the node changes under the client: its operator changes
\* --rpc-max-multiple-accounts, or an account is created or closed.
MaxNodeChanges == 1
\* Polls of Daemon::run (its loop has no end).
MaxPolls == 3
\* The longest accounts_to_query that get_multiple_accounts_chunked is applied
\* to on its own.
MaxFetchKeys == 6
\* The polls of Daemon::run that are followed where the lock and unlock of
\* the mutex are steps.
MaxLockingPolls == 2

\* usize::MAX, the initial max_items_per_call (the largest integer TLC has).
USIZE_MAX == 2147483647

\* core::time::Duration { secs, nanos }, nanos below NANOS_PER_SEC
NANOS_PER_SEC == 1000 * 1000 * 1000
Duration_new(secs, nanos) == [secs |-> secs, nanos |-> nanos]
Duration_from_secs(secs) == Duration_new(secs, 0)
Duration_ZERO == Duration_from_secs(0)
\* Ord for Duration
Duration_lt(a, b) == a.secs < b.secs \/ (a.secs = b.secs /\ a.nanos < b.nanos)
Duration_le(a, b) == a = b \/ Duration_lt(a, b)
\* Add and Sub for Duration (b no longer than a)
Duration_add(a, b) ==
    IF a.nanos + b.nanos >= NANOS_PER_SEC
    THEN Duration_new(a.secs + b.secs + 1, a.nanos + b.nanos - NANOS_PER_SEC)
    ELSE Duration_new(a.secs + b.secs, a.nanos + b.nanos)
Duration_sub(a, b) ==
    IF a.nanos >= b.nanos
    THEN Duration_new(a.secs - b.secs, a.nanos - b.nanos)
    ELSE Duration_new(a.secs - b.secs - 1, a.nanos + NANOS_PER_SEC - b.nanos)
\* Div<u32> for Duration, by two
Duration_half(a) ==
    Duration_new(a.secs \div 2, ((a.secs % 2) * NANOS_PER_SEC + a.nanos) \div 2)

\* Duration::from_secs_f32(0.2) and Duration::from_secs_f32(300.0), as the
\* toolchain that builds the daemon converts them.  0.2f32 is
\* 0.20000000298...; std rounds its nanoseconds to the nearest, which is
\* 200_000_003, where older versions of std multiplied in f32, which gives
\* 200_000_000 and, for 300.0, the f32 next to 3e11: 299_999_985_664.
sleep_time_limits ==
    {[min_sleep_time |-> Duration_new(0, 200000003),
      max_sleep_time |-> Duration_from_secs(300)],
     [min_sleep_time |-> Duration_new(0, 200000000),
      max_sleep_time |-> Duration_new(299, 999985664)]}
\* Duration::from_secs(self.opts.poll_interval_seconds), default_value = "5"
POLL_INTERVAL == Duration_from_secs(5)

Keys == 1..MaxKeys
FreeKeys == Keys \cap {1, 2}
\* The validator identities a callback asks the side info for.  with_snapshot
\* handles one identity in a round and treats all identities alike.
Identities == {1}

Min(a, b) == IF a < b THEN a ELSE b
Range(s) == {s[i] : i \in 1..Len(s)}

\* ------------------------------------------------------------ OrderedSet

\* OrderedSet::new
OrderedSet_new == [elements_vec |-> <<>>, elements_set |-> {}]

\* HashSet::insert returns whether the element was new.
push_is_new(self, element) == element \notin self.elements_set

\* A variant of push that appends whether the element is new or not.
push_always(self, element) ==
    [elements_vec |-> Append(self.elements_vec, element),
     elements_set |-> self.elements_set \cup {element}]

\* OrderedSet::push
push(self, element) ==
    LET is_new == push_is_new(self, element)
        inserted == self.elements_set \cup {element}
    IN  IF is_new
        THEN [elements_vec |-> Append(self.elements_vec, element),
              elements_set |-> inserted]
        ELSE [elements_vec |-> self.elements_vec, elements_set |-> inserted]

\* A variant of union_from that goes through other from its end.
RECURSIVE union_from_end(_, _, _)
union_from_end(self, other_vec, i) ==
    IF i > Len(other_vec) THEN self
    ELSE union_from_end(push(self, other_vec[Len(other_vec) + 1 - i]),
                        other_vec, i + 1)

\* OrderedSet::union_with: push every element of other, in other's order.
RECURSIVE union_from(_, _, _)
union_from(self, other_vec, i) ==
    IF i > Len(other_vec) THEN self
    ELSE union_from(push(self, other_vec[i]), other_vec, i + 1)

union_with(self, other) == union_from(self, other.elements_vec, 1)

\* Deref to the slice: len() and is_empty().
len(self) == Len(self.elements_vec)
\* A variant of is_empty that finds an element in every set.
is_empty_never(self) == FALSE
is_empty(self) == len(self) = 0

\* A variant of chunk_at that yields the first chunk again and again.
chunk_at_first(vec, size, chunk_index) == SubSeq(vec, 1, Min(size, Len(vec)))

\* slice::chunks(size): the chunk_index-th chunk (1-based) and their number.
num_chunks_of(n, size) == (n + size - 1) \div size
chunk_at(vec, size, chunk_index) ==
    SubSeq(vec, (chunk_index - 1) * size + 1, Min(chunk_index * size, Len(vec)))

\* ------------------------------------------------------- errors and values

\* ClientError as the RPC client reports it.
TooManyInputsError ==
    [type |-> "ClientError", kind |-> "RpcRequestError",
     message |-> "Too many inputs provided; max", key |-> 0]
TransportErrors ==
    {[type |-> "ClientError", kind |-> "Io", message |-> "connection refused",
      key |-> 0],
     [type |-> "ClientError", kind |-> "RpcRequestError",
      message |-> "Node is unhealthy", key |-> 0]}
\* The ClientError of an RPC call other than GetMultipleAccounts that fails.
GetVersionErrors ==
    {[type |-> "ClientError", kind |-> "Io", message |-> "connection refused",
      key |-> 0]}
BincodeError ==
    [type |-> "bincode::ErrorKind", kind |-> "", message |-> "", key |-> 0]
MissingAccountError(address) ==
    [type |-> "MissingAccountError", kind |-> "", message |-> "", key |-> address]
MissingValidatorInfoError(identity) ==
    [type |-> "MissingValidatorInfoError", kind |-> "", message |-> "",
     key |-> identity]

\* A variant of contains_too_many_inputs that compares the whole message.
contains_too_many_inputs_exact(message) ==
    message = "Too many inputs provided"

\* message.contains("Too many inputs provided")
contains_too_many_inputs(message) ==
    message \in {"Too many inputs provided; max"}

\* A variant of is_too_many_inputs_error that looks at the kind only.
is_too_many_inputs_error_by_kind(error) == error.kind = "RpcRequestError"

\* is_too_many_inputs_error
is_too_many_inputs_error(error) ==
    IF error.kind = "RpcRequestError"
    THEN contains_too_many_inputs(error.message)
    ELSE FALSE

NoError == [type |-> "", kind |-> "", message |-> "", key |-> 0]

\* Result values.
Ok(v) == [tag |-> "Ok", value |-> v, err |-> NoError, identity |-> 0]
Err(e) == [tag |-> "Err", value |-> <<>>, err |-> e, identity |-> 0]
NoResult == [tag |-> "None", value |-> <<>>, err |-> NoError, identity |-> 0]

\* SnapshotError, the error type of the callback and of Snapshot's methods.
SnapshotError_MissingAccount ==
    [tag |-> "MissingAccount", value |-> <<>>, err |-> NoError, identity |-> 0]
SnapshotError_MissingValidatorIdentity(id) ==
    [tag |-> "MissingValidatorIdentity", value |-> <<>>, err |-> NoError,
     identity |-> id]
SnapshotError_OtherError(e) ==
    [tag |-> "OtherError", value |-> <<>>, err |-> e, identity |-> 0]
Running == [tag |-> "Running", value |-> <<>>, err |-> NoError, identity |-> 0]

\* ------------------------------------------------------------------ state

VARIABLES
    \* SnapshotClient
    accounts_to_query,        \* OrderedSet<Pubkey>
    validator_info_addrs,     \* the identities the HashMap has an entry for
    max_items_per_call,       \* usize
    \* the RPC node and the chain behind it
    rpc_max_multiple_accounts, \* the hidden limit on addresses per call
    absent,                   \* the addresses that hold no account
    node_changes,             \* times the node's limit or its accounts changed
    limit_changed,            \* the operator changed the limit at some time
    \* with_snapshot and get_multiple_accounts_chunked in progress
    pc,                       \* where the call stands
    num_chunks,               \* the loop variable of 'num_chunks
    chunk_index,              \* the next chunk of the inner for (1-based)
    result,                   \* Vec<Option<Account>> of the fetch
    served,                   \* the values the node returned in this attempt
    discarded,                \* an attempt of this fetch was given up after
                              \* some of its batches had been answered
    accounts,                 \* the HashMap the Snapshot reads from
    accounts_referenced,      \* the OrderedSet the Snapshot records into
    f_result,                 \* what the callback returned
    ret,                      \* what with_snapshot returned last
    \* observation of the run
    event,                    \* the step taken last
    min_rejected,             \* the smallest batch the node rejected as too
                              \* large so far, 0 when it rejected none
    batch_calls,              \* the get_multiple_accounts calls of the fetch
                              \* of this round, in the order they were issued;
                              \* emptied when the fetch fails or the round ends
    keys_at_call,             \* accounts_to_query.elements_set when the call began
    call_keys,                \* the addresses the callback has read in the
                              \* call under way, as long as the call had no
                              \* side-info retry
    ok_keys,                  \* <<K>> when the last call to return returned Ok,
                              \* K the addresses its last round referenced, in
                              \* order of first reference; else <<>>
    strayed,                  \* the callback read an address outside K in this call
    side_info_retried,        \* a round of this call ended in a side info refresh
    fetch_rounds,             \* fetch rounds of the call so far
    invocations,              \* callback invocations of the call so far
    \* Daemon, the clock and the http handler threads
    daemon_pc,                \* where Daemon::run stands
    now,                      \* the time since Daemon::new, a Duration
    last_read_success,        \* Instant
    metrics,                  \* Metrics, the daemon's own
    heap,                     \* the Metrics each Arc::new allocated, by address
    snapshot_mutex,           \* the Arc<Metrics> in the Mutex, an address of heap
    sleep_time,               \* the Duration Daemon::run sleeps next
    handlers,                 \* per http handler thread: where serve_request
                              \* stands, the Arc it cloned, what it has written
    mutex_guard,              \* the thread that holds the MutexGuard of the
                              \* Mutex<Arc<Metrics>>, when its lock and unlock
                              \* are followed as steps of their own
    \* two OrderedSets and the operations applied to them
    ordered_sets,             \* the OrderedSets a and b
    first_inserted,           \* per OrderedSet, the elements inserted into it
                              \* so far, each once, in the order they first were
    ordered_op                \* the operation applied last

client == <<accounts_to_query, validator_info_addrs, max_items_per_call>>
chain == <<rpc_max_multiple_accounts, absent, node_changes, limit_changed>>
fetch == <<num_chunks, chunk_index, result, served, discarded>>
round == <<accounts, accounts_referenced, f_result>>
call_observed == <<keys_at_call, call_keys, strayed, side_info_retried,
                   fetch_rounds, invocations>>
observed == <<event, min_rejected, batch_calls, ok_keys, call_observed>>
daemon_vars == <<daemon_pc, now, last_read_success, metrics, heap,
                 snapshot_mutex, sleep_time, handlers, mutex_guard>>
ordered_set_vars == <<ordered_sets, first_inserted, ordered_op>>
vars == <<client, chain, pc, fetch, round, ret, observed, daemon_vars,
          ordered_set_vars>>

Event(type, arg, tag) == [type |-> type, arg |-> arg, tag |-> tag]

\* The two OrderedSets that operations are applied to.
OrderedSets == {"a", "b"}
\* The elements pushed into them.
Elements == Keys \cap {1, 2, 3, 4}
\* No operation applied yet: the sets are as OrderedSet::new made them.
NoOp == [fn |-> "new", self |-> "a", other |-> "a", element |-> 0]

\* ------------------------------------------------------- Daemon, its state

\* The http handler threads (num_cpus::get() of them): one is followed.
Handlers == {1}
\* ... and two where the lock and unlock of the mutex are followed.
LockingHandlers == {1, 2}

\* Metrics { current_slot, current_epoch, solana_version, produced_at, polls,
\* errors }; produced_at a Duration since SystemTime::UNIX_EPOCH.
Metrics(slot, epoch, version, produced_at, polls, errors) ==
    [current_slot |-> slot, current_epoch |-> epoch, solana_version |-> version,
     produced_at |-> produced_at, polls |-> polls, errors |-> errors]

\* A variant of the initial metrics dated at the creation of the daemon.
initial_metrics_dated ==
    Metrics(0, 0, "0.0.0", Duration_from_secs(1), 0, 0)

\* Daemon::new: let metrics = Metrics { .. }
initial_metrics == Metrics(0, 0, "0.0.0", Duration_ZERO, 0, 0)

\* What serve_request has written of a Metrics: nothing yet.
NothingWritten == <<>>

\* The threads that lock the Mutex<Arc<Metrics>>: the main thread, in
\* Daemon::run, and the http handler threads; NoThread when it is unlocked.
MainThread == [thread |-> "main", handler |-> 0]
HandlerThread(h) == [thread |-> "http_handler", handler |-> h]
NoThread == [thread |-> "", handler |-> 0]

\* An http handler thread waiting for a request.
HandlerIdle == [at |-> "idle", snapshot |-> 0, out |-> NothingWritten]

\* Daemon::new, and the given http handler threads of start_http_server
Daemon_new_serving(threads) ==
    /\ daemon_pc = "loop"
    /\ now = Duration_ZERO
    /\ last_read_success = now
    /\ metrics = initial_metrics
    /\ heap = <<initial_metrics>>
    /\ snapshot_mutex = 1
    /\ sleep_time = Duration_ZERO
    /\ handlers = [h \in threads |-> HandlerIdle]
    /\ mutex_guard = NoThread

\* Daemon::new, and the http handler threads of start_http_server
Daemon_new == Daemon_new_serving(Handlers)

\* main before Daemon::new: SnapshotClient::new, and a chain with some hidden
\* limit
SnapshotClient_new ==
    /\ ordered_sets = [name \in OrderedSets |-> OrderedSet_new]
    /\ first_inserted = [name \in OrderedSets |-> <<>>]
    /\ ordered_op = NoOp
    /\ accounts_to_query = OrderedSet_new
    /\ validator_info_addrs = {}
    /\ max_items_per_call = USIZE_MAX
    /\ rpc_max_multiple_accounts \in 1..MaxLimit
    /\ absent = {}
    /\ node_changes = 0
    /\ limit_changed = FALSE
    /\ pc = "idle"
    /\ num_chunks = 1
    /\ chunk_index = 1
    /\ result = <<>>
    /\ served = <<>>
    /\ discarded = FALSE
    /\ accounts = <<>>
    /\ accounts_referenced = OrderedSet_new
    /\ f_result = NoResult
    /\ ret = NoResult
    /\ event = Event("new", 0, "")
    /\ min_rejected = 0
    /\ batch_calls = <<>>
    /\ keys_at_call = {}
    /\ call_keys = {}
    /\ ok_keys = <<>>
    /\ strayed = FALSE
    /\ side_info_retried = FALSE
    /\ fetch_rounds = 0
    /\ invocations = 0

\* main: SnapshotClient::new, and a chain with some hidden limit; Daemon::new
Init ==
    /\ Daemon_new
    /\ SnapshotClient_new

\* ------------------------------------------------------------ the RPC node

\* What the node holds at an address: Option<Account>, with the address kept
\* to tell the values apart.
account_at(address) ==
    [address |-> address, exists |-> address \notin absent]

\* RpcClient::get_multiple_accounts as the node answers it: a rejection for
\* more addresses than the limit, else one entry per address, in order.
node_response(chunk) ==
    IF Len(chunk) > rpc_max_multiple_accounts
    THEN Err(TooManyInputsError)
    ELSE Ok([i \in 1..Len(chunk) |-> account_at(chunk[i])])

\* ... or the call fails on the way.
get_multiple_accounts(chunk) ==
    {node_response(chunk)} \cup {Err(e) : e \in TransportErrors}

\* The operator restarts the node with another limit.  The client sees the
\* limit only in the answer to a GetMultipleAccounts call, so the change is
\* taken right before such a call.
LimitChange ==
    /\ pc = "chunks"
    /\ node_changes < MaxNodeChanges
    /\ node_changes' = node_changes + 1
    /\ \E limit \in (1..MaxLimit) \ {rpc_max_multiple_accounts} :
         rpc_max_multiple_accounts' = limit
    /\ limit_changed' = TRUE
    /\ UNCHANGED <<client, absent, pc, fetch, round, ret, observed, daemon_vars, ordered_set_vars>>

\* The account at address 1 is created or closed on the chain, between two
\* GetMultipleAccounts calls.
AccountChange ==
    /\ pc = "chunks"
    /\ node_changes < MaxNodeChanges
    /\ node_changes' = node_changes + 1
    /\ absent' = IF 1 \in absent THEN absent \ {1} ELSE absent \cup {1}
    /\ UNCHANGED <<client, rpc_max_multiple_accounts, limit_changed, pc, fetch,
                   round, ret, observed, daemon_vars, ordered_set_vars>>

\* ------------------------------------------- get_multiple_accounts_chunked

\* A variant of next_num_chunks that tries the same number of chunks again.
next_num_chunks_stuck(k) == k

\* for num_chunks in 1..
next_num_chunks(k) == k + 1

\* A variant of items_per_chunk that rounds up.
items_per_chunk_rounded_up(query, k) == (len(query) + k - 1) \div k

\* let items_per_chunk = self.accounts_to_query.len() / num_chunks;
items_per_chunk(query, k) == len(query) \div k

\* A variant of known_to_fail that skips the attempts at the ceiling too.
known_to_fail_at_ceiling(items, ceiling) == items >= ceiling

\* A variant of known_to_fail that lets through one address above the ceiling.
known_to_fail_above_next(items, ceiling) == items - 1 > ceiling

\* A variant of known_to_fail that skips no attempt.
known_to_fail_never(items, ceiling) == FALSE

\* if items_per_chunk > self.max_items_per_call { continue; }
known_to_fail(items, ceiling) == items > ceiling

\* A variant of learned_ceiling that goes one further below the rejected size.
learned_ceiling_below(chunk) == Len(chunk) - 2

\* A variant of learned_ceiling that forgets what the rejection taught.
learned_ceiling_forgetting(chunk) == USIZE_MAX

\* A variant of learned_ceiling that halves the rejected size.
learned_ceiling_halved(chunk) == Len(chunk) \div 2

\* A variant of learned_ceiling that keeps the rejected size as allowed.
learned_ceiling_whole(chunk) == Len(chunk)

\* self.max_items_per_call = chunk.len() - 1;
learned_ceiling(chunk) == Len(chunk) - 1

\* A variant of extend that puts the new values in front.
extend_front(vec, values) == values \o vec

\* result.extend(accounts)
extend(vec, values) == vec \o values

\* A variant of warns that is silent about two chunks.
warns_above_two(k) == k > 2

\* if num_chunks > 1 { eprintln!("Warning: ...") }
warns(k) == k > 1

\* A variant of zip_collect that leaves out the accounts that do not exist.
zip_collect_present(query_vec, account_values) ==
    LET n == Min(Len(query_vec), Len(account_values))
        present == {i \in 1..n : account_values[i].exists}
    IN  [address \in {query_vec[i] : i \in present} |->
            account_values[CHOOSE i \in present : query_vec[i] = address]]

\* A variant of zip_collect that leaves out the last pair.
zip_collect_short(query_vec, account_values) ==
    LET n == Min(Len(query_vec), Len(account_values)) - 1
    IN  [address \in {query_vec[i] : i \in 1..n} |->
            account_values[CHOOSE i \in 1..n :
                /\ query_vec[i] = address
                /\ \A j \in (i + 1)..n : query_vec[j] # address]]

\* with_snapshot, from the fetched values to the call of f: the HashMap of
\* accounts_to_query zipped with the values, a new OrderedSet, f(snapshot).
zip_collect(query_vec, account_values) ==
    LET n == Min(Len(query_vec), Len(account_values))
    IN  [address \in {query_vec[i] : i \in 1..n} |->
            account_values[CHOOSE i \in 1..n :
                /\ query_vec[i] = address
                /\ \A j \in (i + 1)..n : query_vec[j] # address]]

CallF(account_values) ==
    /\ accounts' = zip_collect(accounts_to_query.elements_vec, account_values)
    /\ accounts_referenced' = OrderedSet_new
    /\ f_result' = Running
    /\ invocations' = invocations + 1
    /\ pc' = "invoke"

\* with_snapshot returns: its locals and those of the fetch are dropped.
DropLocals ==
    /\ num_chunks' = 1
    /\ chunk_index' = 1
    /\ result' = <<>>
    /\ served' = <<>>
    /\ discarded' = FALSE
    /\ accounts' = <<>>
    /\ accounts_referenced' = OrderedSet_new
    /\ f_result' = NoResult

\* with_snapshot returns value to its caller.
ReturnFrom(value, referenced) ==
    /\ ret' = value
    /\ pc' = "idle"
    /\ ok_keys' = IF value.tag = "Ok" THEN <<referenced.elements_vec>> ELSE <<>>
    /\ call_keys' = {}
    /\ UNCHANGED <<keys_at_call, strayed, side_info_retried, fetch_rounds,
                   invocations>>

\* with_snapshot is entered.
EnterWithSnapshot ==
    /\ pc = "idle"
    /\ pc' = "loop"
    /\ ret' = NoResult
    /\ keys_at_call' = accounts_to_query.elements_set
    /\ call_keys' = {}
    /\ strayed' = FALSE
    /\ side_info_retried' = FALSE
    /\ fetch_rounds' = 0
    /\ invocations' = 0
    /\ event' = Event("call", 0, "")
    /\ UNCHANGED <<client, chain, fetch, round, min_rejected, batch_calls,
                   ok_keys>>

\* with_snapshot is called, by some caller.
Call ==
    /\ EnterWithSnapshot
    /\ UNCHANGED <<daemon_vars, ordered_set_vars>>

\* The top of with_snapshot's loop: get_multiple_accounts_chunked is entered.
\* With nothing to query it returns the empty Vec at once.
FetchBegin ==
    /\ pc = "loop"
    /\ fetch_rounds' = fetch_rounds + 1
    /\ result' = <<>>
    /\ served' = <<>>
    /\ discarded' = FALSE
    /\ batch_calls' = <<>>
    /\ num_chunks' = 1
    /\ chunk_index' = 1
    /\ IF is_empty(accounts_to_query)
       THEN /\ CallF(<<>>)
            /\ event' = Event("fetched", 0, "")
       ELSE /\ pc' = "attempt"
            /\ event' = Event("fetch", 0, "")
            /\ UNCHANGED <<round, invocations>>
    /\ UNCHANGED <<client, chain, ret, min_rejected, ok_keys, keys_at_call,
                   call_keys,
                   strayed, side_info_retried, daemon_vars, ordered_set_vars>>

\* One pass through the head of the 'num_chunks loop.
AttemptBegin ==
    /\ pc = "attempt"
    /\ result' = <<>>
    /\ served' = <<>>
    /\ chunk_index' = 1
    /\ LET items == items_per_chunk(accounts_to_query, num_chunks)
       IN  IF ~(items > 0)
           THEN /\ pc' = "panic"
                /\ event' = Event("assert", num_chunks, "items_per_chunk > 0")
                /\ UNCHANGED num_chunks
           ELSE IF known_to_fail(items, max_items_per_call)
           THEN /\ pc' = "attempt"
                /\ num_chunks' = next_num_chunks(num_chunks)
                /\ event' = Event("skip", items, "")
           ELSE /\ pc' = "chunks"
                /\ event' = Event("attempt", items, "")
                /\ UNCHANGED num_chunks
    /\ UNCHANGED <<client, chain, discarded, round, ret, min_rejected,
                   batch_calls, ok_keys, call_observed, daemon_vars, ordered_set_vars>>

\* A get_multiple_accounts call as observed: the attempt (its num_chunks) that
\* issued it, the ceiling known at the time, the addresses and the arm of the
\* match the response took.
BatchCallOf(attempt, chunk, response) ==
    [attempt |-> attempt, ceiling |-> max_items_per_call, chunk |-> chunk,
     arm |-> IF response.tag = "Ok" THEN "Ok"
             ELSE IF is_too_many_inputs_error(response.err)
                  THEN "TooManyInputs" ELSE "Err"]

\* One get_multiple_accounts call of the inner for, and what follows it:
\* the next chunk, or the end of the for and the return of the values to
\* with_snapshot, or `continue 'num_chunks`, or the return of the error.
BatchCall ==
    /\ pc = "chunks"
    /\ LET query == accounts_to_query.elements_vec
           items == items_per_chunk(accounts_to_query, num_chunks)
           chunk == chunk_at(query, items, chunk_index)
       IN  \E response \in get_multiple_accounts(chunk) :
             /\ batch_calls' =
                   LET call == BatchCallOf(num_chunks, chunk, response)
                   IN  IF call.arm = "Err" THEN <<>>
                       ELSE Append(batch_calls, call)
             /\ min_rejected' =
                   IF response.tag = "Err" /\ response.err = TooManyInputsError
                      /\ (min_rejected = 0 \/ Len(chunk) < min_rejected)
                   THEN Len(chunk)
                   ELSE min_rejected
             /\ IF response.tag = "Ok"
                THEN LET extended == extend(result, response.value)
                     IN  /\ result' = extended
                         /\ served' = served \o response.value
                         /\ UNCHANGED discarded
                         /\ UNCHANGED <<client, ret, ok_keys, keys_at_call,
                                        call_keys,
                                        strayed, side_info_retried, fetch_rounds>>
                         /\ IF chunk_index < num_chunks_of(Len(query), items)
                            THEN /\ chunk_index' = chunk_index + 1
                                 /\ pc' = "chunks"
                                 /\ event' = Event("batch_ok", Len(chunk), "")
                                 /\ UNCHANGED <<num_chunks, round, invocations>>
                            ELSE IF Len(extended) # Len(query)
                            THEN /\ pc' = "panic"
                                 /\ event' = Event("assert", Len(chunk),
                                                   "result.len()")
                                 /\ UNCHANGED <<num_chunks, chunk_index, round,
                                                invocations>>
                            ELSE /\ CallF(extended)
                                 /\ num_chunks' = 1
                                 /\ chunk_index' = 1
                                 /\ event' = Event("fetched", Len(chunk),
                                        IF warns(num_chunks) THEN "Warning" ELSE "")
                ELSE IF is_too_many_inputs_error(response.err)
                THEN /\ max_items_per_call' = learned_ceiling(chunk)
                     /\ num_chunks' = next_num_chunks(num_chunks)
                     /\ pc' = "attempt"
                     /\ discarded' = (discarded \/ served # <<>>)
                     /\ event' = Event("batch_rejected", Len(chunk),
                                       response.err.message)
                     /\ UNCHANGED <<accounts_to_query, validator_info_addrs,
                                    result, served, chunk_index, round, ret,
                                    ok_keys, call_observed>>
                ELSE /\ ReturnFrom(Err(response.err), accounts_referenced)
                     /\ event' = Event("batch_failed", Len(chunk),
                                       response.err.message)
                     /\ DropLocals
                     /\ UNCHANGED client
    /\ UNCHANGED <<chain, daemon_vars, ordered_set_vars>>

\* ---------------------------------------------------------------- Snapshot

\* A variant of get_account_result that takes an account the node reported
\* absent for one that was not fetched.
get_account_result_conflating(map, address) ==
    IF address \in DOMAIN map /\ map[address].exists
    THEN Ok(map[address])
    ELSE SnapshotError_MissingAccount

\* self.accounts.get(address), matched by Snapshot::get_account
get_account_result(map, address) ==
    IF address \in DOMAIN map
    THEN IF map[address].exists
         THEN Ok(map[address])
         ELSE SnapshotError_OtherError(MissingAccountError(address))
    ELSE SnapshotError_MissingAccount

\* A variant of record_reference that records only the addresses in the map.
record_reference_if_fetched(referenced, address) ==
    IF address \in DOMAIN accounts THEN push(referenced, address) ELSE referenced

\* self.accounts_referenced.push(*address), the first statement of get_account
record_reference(referenced, address) == push(referenced, address)

\* The addresses the callback may read next: any of FreeKeys, or the next
\* address of the walk 1, 2, 3, ... when it has read exactly those before it.
MayRead(address) ==
    \/ address \in FreeKeys
    \/ accounts_referenced.elements_vec = [i \in 1..(address - 1) |-> i]

\* Snapshot::get_account(address), called by the callback.  On an error the
\* callback either returns it (`?`, as get_bincode does) or goes on without
\* the account.
ReadAccount(address) ==
    /\ pc = "invoke"
    /\ accounts_referenced' = record_reference(accounts_referenced, address)
    /\ strayed' = (strayed \/ ok_keys = <<>> \/ address \notin Range(ok_keys[1]))
    /\ call_keys' = IF side_info_retried THEN {} ELSE call_keys \cup {address}
    /\ LET got == get_account_result(accounts, address)
       IN  /\ event' = Event("get", address, got.tag)
           /\ \/ /\ got.tag # "Ok"
                 /\ f_result' = got
                 /\ pc' = "classify"
              \/ UNCHANGED <<f_result, pc>>
    /\ UNCHANGED <<client, chain, fetch, accounts, ret, min_rejected,
                   batch_calls, ok_keys,
                   keys_at_call, side_info_retried, fetch_rounds, invocations>>

\* Some callback reads an account.
GetAccount ==
    /\ \E address \in Keys : MayRead(address) /\ ReadAccount(address)
    /\ UNCHANGED <<daemon_vars, ordered_set_vars>>

\* ------------------------------------------------- with_snapshot's match

\* validator_info_utils::get_validator_info_accounts: the identities that
\* have a validator info account now, or a failed RPC call.
get_validator_info_accounts ==
    {Ok(ids) : ids \in SUBSET Identities} \cup {Err(e) : e \in GetVersionErrors}

\* A variant of contains_key that finds every identity.
contains_key_always(addrs, identity) == TRUE

\* self.validator_info_addrs.contains_key(&identity_addr)
contains_key(addrs, identity) == identity \in addrs

\* A variant of query_after_ok that merges as the MissingAccount arm does.
query_after_ok_merging(referenced, query) == union_with(referenced, query)

\* Ok(result) => self.accounts_to_query = accounts_referenced
query_after_ok(referenced, query) == referenced

\* A variant of query_after_missing_account that leaves the query as it was.
query_after_missing_account_keeping(referenced, query) == query

\* A variant of query_after_missing_account that replaces, as the Ok arm does.
query_after_missing_account_replacing(referenced, query) == referenced

\* A variant of query_after_missing_account that merges the other way round.
query_after_missing_account_swapped(referenced, query) ==
    union_with(query, referenced)

\* Err(MissingAccount) => accounts_referenced.union_with(&self.accounts_to_query)
query_after_missing_account(referenced, query) == union_with(referenced, query)

\* Err(SnapshotError::OtherError(err)) => return Err(err)
return_other_error(err) == Err(err)

\* The next iteration of with_snapshot's loop.
LoopAgain(for_side_info) ==
    /\ pc' = "loop"
    /\ side_info_retried' = (side_info_retried \/ for_side_info)
    /\ call_keys' = IF for_side_info THEN {} ELSE call_keys
    /\ UNCHANGED <<ret, ok_keys, keys_at_call, strayed, fetch_rounds,
                   invocations>>

\* A variant of matched_arm that hands OtherError to the MissingAccount arm.
matched_arm_retrying(r) ==
    IF r.tag = "OtherError" THEN "MissingAccount" ELSE r.tag

\* A variant of matched_arm that hands MissingAccount to the OtherError arm.
matched_arm_conflating(r) ==
    IF r.tag = "MissingAccount" THEN "OtherError" ELSE r.tag

\* The arm of the match that takes r.
matched_arm(r) == r.tag

\* match f(snapshot) { ... }, f having returned r.
Match(r) ==
    /\ CASE matched_arm(r) = "Ok" ->
              /\ accounts_to_query' = query_after_ok(accounts_referenced,
                                                     accounts_to_query)
              /\ ReturnFrom(Ok(r.value), accounts_referenced)
              /\ UNCHANGED validator_info_addrs
         [] matched_arm(r) = "OtherError" ->
              /\ ReturnFrom(return_other_error(r.err), accounts_referenced)
              /\ UNCHANGED <<accounts_to_query, validator_info_addrs>>
         [] matched_arm(r) = "MissingValidatorIdentity" ->
              \E refreshed \in get_validator_info_accounts :
                /\ UNCHANGED accounts_to_query
                /\ IF refreshed.tag = "Err"
                   THEN /\ ReturnFrom(Err(refreshed.err), accounts_referenced)
                        /\ UNCHANGED validator_info_addrs
                   ELSE /\ validator_info_addrs' = refreshed.value
                        /\ IF ~contains_key(refreshed.value, r.identity)
                           THEN ReturnFrom(Err(MissingValidatorInfoError(r.identity)),
                                           accounts_referenced)
                           ELSE LoopAgain(TRUE)
         [] matched_arm(r) = "MissingAccount" ->
              /\ accounts_to_query' =
                    query_after_missing_account(accounts_referenced,
                                                accounts_to_query)
              /\ LoopAgain(FALSE)
              /\ UNCHANGED validator_info_addrs
    \* The end of the loop body, or the return: the round's locals are dropped.
    /\ DropLocals
    /\ batch_calls' = <<>>
    /\ UNCHANGED <<max_items_per_call, chain, min_rejected, daemon_vars, ordered_set_vars>>

\* A read failed: the callback returns the error, with_snapshot matches on it.
Classify ==
    /\ pc = "classify"
    /\ event' = Event("classify", 0, f_result.tag)
    /\ Match(f_result)

\* What the callback returns when no read failed: Ok, an error of its own
\* (get_bincode's deserialize, get_version's RPC call), or a validator
\* identity it has no info address for.
CallbackReturns ==
    {Ok(<<>>), SnapshotError_OtherError(BincodeError)}
    \cup {SnapshotError_OtherError(e) : e \in GetVersionErrors}
    \cup {SnapshotError_MissingValidatorIdentity(id) : id \in
            IF fetch_rounds < MaxSideInfoRounds THEN Identities ELSE {}}

\* No read failed: the callback returns, with_snapshot matches on the result.
Return ==
    /\ pc = "invoke"
    /\ \E r \in CallbackReturns :
         /\ event' = Event("return", r.identity, r.tag)
         /\ Match(r)

\* ------------------------------------------------------------------ Daemon

\* sysvar::clock::id(), the one address the daemon's closure reads
ClockAddress == 1

\* RpcData { clock, version }: <<clock.slot, clock.epoch, version>>.  The clock
\* is the one of the fetched account; epochs are taken to last two slots.
RpcDatas == {<<slot, slot \div 2, "1.14.0">> : slot \in {1, 2}}

\* The time a with_snapshot call can take: 50 ms, or an outage longer than
\* max_sleep_time.
Elapses == {Duration_new(0, 50000000), Duration_from_secs(301)}

\* SystemTime::now(), the daemon having started one second after UNIX_EPOCH
SystemTime_now(instant) == Duration_add(instant, Duration_from_secs(1))

\* Instant::elapsed
elapsed(since, instant) == Duration_sub(instant, since)

\* A variant of clamp with no upper end.
clamp_from_below(value, min, max) == IF Duration_lt(value, min) THEN min ELSE value

\* A variant of clamp with no lower end.
clamp_from_above(value, min, max) == IF Duration_lt(max, value) THEN max ELSE value

\* Ord::clamp
clamp(value, min, max) ==
    IF Duration_lt(value, min) THEN min
    ELSE IF Duration_lt(max, value) THEN max ELSE value

\* let target_sleep_time = time_since_last_success.clamp(min_sleep_time, max_sleep_time)
target_sleep_time(time_since_last_success, limits) ==
    clamp(time_since_last_success, limits.min_sleep_time, limits.max_sleep_time)

\* self.rng.gen_range(low..high): any Duration of the half-open range; the
\* middle between its ends and the last Duration before its high end are
\* taken.
gen_range(low, high) ==
    {d \in {Duration_half(Duration_add(low, high)),
            Duration_sub(high, Duration_new(0, 1))} :
       Duration_le(low, d) /\ Duration_lt(d, high)}

\* Daemon::get_sleep_time_after_error, at the given Instant
get_sleep_time_after_error(instant) ==
    UNION {gen_range(Duration_ZERO,
                     target_sleep_time(elapsed(last_read_success, instant),
                                       limits)) :
             limits \in sleep_time_limits}

\* self.metrics.polls += 1; self.config.with_snapshot(...) is called
PollBegin ==
    /\ daemon_pc = "loop"
    /\ metrics.polls < MaxPolls
    /\ metrics' = [metrics EXCEPT !.polls = @ + 1]
    /\ daemon_pc' = "match"
    /\ EnterWithSnapshot
    /\ UNCHANGED <<now, last_read_success, heap, snapshot_mutex, sleep_time,
                   handlers, mutex_guard, ordered_set_vars>>

\* The closure of Daemon::run: config.client.get_clock()?
ClosureGetClock ==
    /\ daemon_pc = "match"
    /\ is_empty(accounts_referenced)
    /\ ReadAccount(ClockAddress)
    /\ event'.tag # "Ok" => pc' = "classify"
    /\ UNCHANGED <<daemon_vars, ordered_set_vars>>

\* What the closure returns after the read of the clock account: the error of
\* bincode::deserialize, the error of get_version, or Ok(RpcData { .. }).
ClosureReturns ==
    {SnapshotError_OtherError(BincodeError)}
    \cup {SnapshotError_OtherError(e) : e \in GetVersionErrors}
    \cup {Ok(rpc_data) : rpc_data \in RpcDatas}

\* The closure of Daemon::run returns; with_snapshot matches on the result.
ClosureReturn ==
    /\ daemon_pc = "match"
    /\ pc = "invoke"
    /\ ~is_empty(accounts_referenced)
    /\ \E r \in ClosureReturns :
         /\ event' = Event("return", r.identity, r.tag)
         /\ Match(r)

\* A variant of the publication that allocates a copy of the Metrics
\* published before.
published_previous(allocated, address, value) ==
    Append(allocated, allocated[address])

\* A variant of the publication that overwrites the Metrics in place.
published_in_place(allocated, address, value) ==
    [allocated EXCEPT ![address] = value]

\* Arc::new(self.metrics.clone()): the heap with the new allocation
published(allocated, address, value) == Append(allocated, value)

\* A variant of the error arm that counts the failed poll as a poll again.
metrics_after_error_recounting(m) ==
    [m EXCEPT !.errors = @ + 1, !.polls = @ + 1]

\* A variant of the error arm that also resets the observation timestamp.
metrics_after_error_reset(m) ==
    [m EXCEPT !.errors = @ + 1, !.produced_at = Duration_ZERO]

\* self.metrics.errors += 1
metrics_after_error(m) == [m EXCEPT !.errors = @ + 1]

\* The arm Ok(rpc_data) of Daemon::run, the call having taken some time: the
\* metrics are updated and a clone of them is put in the Mutex.
PollOk ==
    /\ daemon_pc = "match"
    /\ pc = "idle"
    /\ ret.tag = "Ok"
    /\ \E d \in Elapses :
         /\ now' = Duration_add(now, d)
         /\ metrics' = [metrics EXCEPT !.current_slot = ret.value[1],
                                       !.current_epoch = ret.value[2],
                                       !.solana_version = ret.value[3],
                                       !.produced_at = SystemTime_now(now')]
    /\ heap' = published(heap, snapshot_mutex, metrics')
    /\ snapshot_mutex' = Len(heap')
    /\ sleep_time' = POLL_INTERVAL
    /\ daemon_pc' = "sleep"
    /\ UNCHANGED <<last_read_success, handlers, mutex_guard>>
    /\ UNCHANGED <<client, chain, pc, fetch, round, ret, observed,
                   ordered_set_vars>>

\* The arm Err(err) of Daemon::run, the call having taken some time.
PollErr ==
    /\ daemon_pc = "match"
    /\ pc = "idle"
    /\ ret.tag = "Err"
    /\ \E d \in Elapses :
         /\ now' = Duration_add(now, d)
         /\ sleep_time' \in get_sleep_time_after_error(now')
    /\ metrics' = metrics_after_error(metrics)
    /\ daemon_pc' = "sleep"
    /\ UNCHANGED <<last_read_success, heap, snapshot_mutex, handlers,
                   mutex_guard>>
    /\ UNCHANGED <<client, chain, pc, fetch, round, ret, observed,
                   ordered_set_vars>>

\* std::thread::sleep(sleep_time)
Sleep ==
    /\ daemon_pc = "sleep"
    /\ now' = Duration_add(now, sleep_time)
    /\ daemon_pc' = "loop"
    /\ UNCHANGED <<last_read_success, metrics, heap, snapshot_mutex, sleep_time,
                   handlers, mutex_guard>>
    /\ UNCHANGED <<client, chain, pc, fetch, round, ret, observed,
                   ordered_set_vars>>

\* ------------------------------------------------------------ serve_request

\* write_prometheus: the two counters, then the three gauges with their
\* timestamp.
counters_of(m) == [polls |-> m.polls, errors |-> m.errors]
gauges_of(m) ==
    [current_slot |-> m.current_slot, current_epoch |-> m.current_epoch,
     solana_version |-> m.solana_version, produced_at |-> m.produced_at]

\* let snapshot = metrics_mutex.lock().unwrap().clone()
HandlerClone(h) ==
    /\ handlers[h].at = "idle"
    /\ handlers' = [handlers EXCEPT ![h] =
                      [at |-> "cloned", snapshot |-> snapshot_mutex,
                       out |-> NothingWritten]]

\* snapshot.write_prometheus(&mut out), its first two write_metric calls
HandlerWriteCounters(h) ==
    /\ handlers[h].at = "cloned"
    /\ handlers' = [handlers EXCEPT ![h].at = "writing",
                      ![h].out = <<counters_of(heap[handlers[h].snapshot])>>]

\* ... and its last three; then request.respond(..)
HandlerWriteGauges(h) ==
    /\ handlers[h].at = "writing"
    /\ handlers' = [handlers EXCEPT ![h].at = "responded",
                      ![h].out = Append(@, gauges_of(heap[handlers[h].snapshot]))]

\* The next request of server_clone.incoming_requests()
HandlerNext(h) ==
    /\ handlers[h].at = "responded"
    /\ handlers' = [handlers EXCEPT ![h] = HandlerIdle]

\* One step of an http handler thread.
ServeRequest ==
    /\ \E h \in Handlers :
         \/ HandlerClone(h)
         \/ HandlerWriteCounters(h)
         \/ HandlerWriteGauges(h)
         \/ HandlerNext(h)
    /\ UNCHANGED <<daemon_pc, now, last_read_success, metrics, heap,
                   snapshot_mutex, sleep_time, mutex_guard>>
    /\ UNCHANGED <<client, chain, pc, fetch, round, ret, observed,
                   ordered_set_vars>>

\* ------------------------------------ the Mutex<Arc<Metrics>>, step by step

\* The arm Ok(rpc_data) of Daemon::run up to the value to assign:
\* Arc::new(self.metrics.clone()), which is evaluated before the place
\* *self.snapshot_mutex.lock().unwrap() that it is assigned to.
PollOkAllocate ==
    /\ daemon_pc = "match"
    /\ pc = "idle"
    /\ ret.tag = "Ok"
    /\ \E d \in Elapses :
         /\ now' = Duration_add(now, d)
         /\ metrics' = [metrics EXCEPT !.current_slot = ret.value[1],
                                       !.current_epoch = ret.value[2],
                                       !.solana_version = ret.value[3],
                                       !.produced_at = SystemTime_now(now')]
    /\ heap' = published(heap, snapshot_mutex, metrics')
    /\ daemon_pc' = "lock"
    /\ UNCHANGED <<last_read_success, snapshot_mutex, sleep_time, handlers,
                   mutex_guard>>
    /\ UNCHANGED <<client, chain, pc, fetch, round, ret, observed,
                   ordered_set_vars>>

\* Mutex::lock: the thread goes on when no thread holds the guard.
lock(thread) ==
    /\ mutex_guard = NoThread
    /\ mutex_guard' = thread

\* A variant of unlock in which the guard outlives the statement.
unlock_kept(thread) ==
    /\ mutex_guard = thread
    /\ mutex_guard' = mutex_guard

\* The MutexGuard is dropped, at the end of the statement that locked.
unlock(thread) ==
    /\ mutex_guard = thread
    /\ mutex_guard' = NoThread

\* self.snapshot_mutex.lock().unwrap() in the Ok arm of Daemon::run
PublishLock ==
    /\ daemon_pc = "lock"
    /\ lock(MainThread)
    /\ daemon_pc' = "store"
    /\ UNCHANGED <<now, last_read_success, metrics, heap, snapshot_mutex,
                   sleep_time, handlers>>
    /\ UNCHANGED <<client, chain, pc, fetch, round, ret, observed,
                   ordered_set_vars>>

\* *guard = the new Arc; the guard is dropped; the value of the arm is the
\* poll interval.
PublishStore ==
    /\ daemon_pc = "store"
    /\ snapshot_mutex' = Len(heap)
    /\ unlock(MainThread)
    /\ sleep_time' = POLL_INTERVAL
    /\ daemon_pc' = "sleep"
    /\ UNCHANGED <<now, last_read_success, metrics, heap, handlers>>
    /\ UNCHANGED <<client, chain, pc, fetch, round, ret, observed,
                   ordered_set_vars>>

\* metrics_mutex.lock().unwrap() in serve_request
HandlerLock(h) ==
    /\ handlers[h].at = "idle"
    /\ lock(HandlerThread(h))
    /\ handlers' = [handlers EXCEPT ![h].at = "locked"]

\* .clone() of the Arc<Metrics> behind the guard; the guard is dropped at the
\* end of the let statement.
HandlerCloneUnlock(h) ==
    /\ handlers[h].at = "locked"
    /\ unlock(HandlerThread(h))
    /\ handlers' = [handlers EXCEPT ![h] =
                      [at |-> "cloned", snapshot |-> snapshot_mutex,
                       out |-> NothingWritten]]

\* The rest of serve_request, from the clone: write_prometheus,
\* request.respond, and the next request.
HandlerRespond(h) ==
    /\ handlers[h].at = "cloned"
    /\ handlers' = [handlers EXCEPT ![h] = HandlerIdle]

\* One step of an http handler thread, its lock and unlock being steps.
LockingServeRequest ==
    /\ \E h \in LockingHandlers :
         \/ HandlerLock(h)
         \/ HandlerCloneUnlock(h)
         \/ HandlerRespond(h) /\ UNCHANGED mutex_guard
    /\ UNCHANGED <<daemon_pc, now, last_read_success, metrics, heap,
                   snapshot_mutex, sleep_time>>
    /\ UNCHANGED <<client, chain, pc, fetch, round, ret, observed,
                   ordered_set_vars>>

\* ------------------------------------------------- OrderedSet, on its own

\* The order of first insertion after the elements of inserted_vec are
\* inserted one after the other.
RECURSIVE noted(_, _, _)
noted(firsts, inserted_vec, i) ==
    IF i > Len(inserted_vec) THEN firsts
    ELSE noted(IF \E j \in 1..Len(firsts) : firsts[j] = inserted_vec[i]
               THEN firsts ELSE firsts \o <<inserted_vec[i]>>,
               inserted_vec, i + 1)

\* name.push(element)
PushInto(name, element) ==
    /\ ordered_sets' = [ordered_sets EXCEPT ![name] = push(@, element)]
    /\ first_inserted' = [first_inserted EXCEPT ![name] = noted(@, <<element>>, 1)]
    /\ ordered_op' = [fn |-> "push", self |-> name, other |-> name,
                      element |-> element]

\* name.union_with(&other)
UnionInto(name, other) ==
    /\ ordered_sets' =
          [ordered_sets EXCEPT ![name] = union_with(@, ordered_sets[other])]
    /\ first_inserted' =
          [first_inserted EXCEPT
             ![name] = noted(@, ordered_sets[other].elements_vec, 1)]
    /\ ordered_op' = [fn |-> "union_with", self |-> name, other |-> other,
                      element |-> 0]

\* OrderedSet::push on one of the two sets
OrderedSetPush ==
    /\ \E name \in OrderedSets, element \in Elements : PushInto(name, element)
    /\ UNCHANGED <<client, chain, pc, fetch, round, ret, observed, daemon_vars>>

\* OrderedSet::union_with of one of the two sets with the other
OrderedSetUnionWith ==
    /\ \E name \in OrderedSets, other \in OrderedSets :
         name # other /\ UnionInto(name, other)
    /\ UNCHANGED <<client, chain, pc, fetch, round, ret, observed, daemon_vars>>

\* ------------------------------------------------------------ specification

Next ==
    \/ Call
    \/ FetchBegin
    \/ AttemptBegin
    \/ BatchCall
    \/ GetAccount
    \/ Return
    \/ Classify
    \/ LimitChange
    \/ AccountChange

Spec == Init /\ [][Next]_vars

\* main: the daemon polls with its own closure while the http handler threads
\* serve requests.
DaemonNext ==
    \/ PollBegin
    \/ FetchBegin
    \/ AttemptBegin
    \/ BatchCall
    \/ ClosureGetClock
    \/ ClosureReturn
    \/ Classify
    \/ PollOk
    \/ PollErr
    \/ Sleep
    \/ ServeRequest

DaemonSpec == Init /\ [][DaemonNext]_vars

\* Any sequence of push and union_with on two OrderedSets made by
\* OrderedSet::new.
OrderedSetNext ==
    \/ OrderedSetPush
    \/ OrderedSetUnionWith

OrderedSetSpec == Init /\ [][OrderedSetNext]_vars

\* main with two http handler threads, the lock and the unlock of the
\* Mutex<Arc<Metrics>> being steps of the threads.
MutexInit ==
    /\ Daemon_new_serving(LockingHandlers)
    /\ SnapshotClient_new

\* An iteration of Daemon::run begins, one of the MaxLockingPolls followed.
LockingPollBegin ==
    /\ metrics.polls < MaxLockingPolls
    /\ PollBegin

MutexNext ==
    \/ LockingPollBegin
    \/ FetchBegin
    \/ AttemptBegin
    \/ BatchCall
    \/ ClosureGetClock
    \/ ClosureReturn
    \/ Classify
    \/ PollOkAllocate
    \/ PublishLock
    \/ PublishStore
    \/ PollErr
    \/ Sleep
    \/ LockingServeRequest

MutexSpec == MutexInit /\ [][MutexNext]_vars

\* with_snapshot is at the top of its loop, in a client of any
\* accounts_to_query of at most MaxFetchKeys keys and of any max_items_per_call
\* that earlier fetches can have left: usize::MAX, or one less than the size
\* of a batch that a node rejected.
ChunkedFetchInit ==
    /\ Daemon_new
    /\ ordered_sets = [name \in OrderedSets |-> OrderedSet_new]
    /\ first_inserted = [name \in OrderedSets |-> <<>>]
    /\ ordered_op = NoOp
    /\ \E n \in 0..MaxFetchKeys :
         accounts_to_query = [elements_vec |-> [i \in 1..n |-> i],
                              elements_set |-> 1..n]
    /\ validator_info_addrs = {}
    /\ max_items_per_call \in {USIZE_MAX} \cup (1..(MaxFetchKeys - 1))
    /\ rpc_max_multiple_accounts \in 1..MaxLimit
    /\ absent = {}
    /\ node_changes = 0
    /\ limit_changed = FALSE
    /\ pc = "loop"
    /\ num_chunks = 1
    /\ chunk_index = 1
    /\ result = <<>>
    /\ served = <<>>
    /\ discarded = FALSE
    /\ accounts = <<>>
    /\ accounts_referenced = OrderedSet_new
    /\ f_result = NoResult
    /\ ret = NoResult
    /\ event = Event("call", 0, "")
    /\ min_rejected = 0
    /\ batch_calls = <<>>
    /\ keys_at_call = accounts_to_query.elements_set
    /\ call_keys = {}
    /\ ok_keys = <<>>
    /\ strayed = FALSE
    /\ side_info_retried = FALSE
    /\ fetch_rounds = 0
    /\ invocations = 0

\* get_multiple_accounts_chunked, from its entry to its return or panic,
\* against a node whose limit and accounts can change under it.
ChunkedFetchNext ==
    \/ FetchBegin
    \/ AttemptBegin
    \/ BatchCall
    \/ LimitChange
    \/ AccountChange

ChunkedFetchSpec == ChunkedFetchInit /\ [][ChunkedFetchNext]_vars

\* ------------------------------------------------------------------ claims

Returned == pc = "idle" /\ ret.tag # "None"
InCall == pc \in {"loop", "attempt", "chunks", "invoke", "classify"}

\* C1: when with_snapshot returns Ok, accounts_to_query is exactly what the
\* callback referenced in its last invocation, in order of first reference,
\* whatever was fetched and whatever earlier rounds of the call referenced.
C1_OkPersistsLastReferenced ==
    (Returned /\ ret.tag = "Ok") =>
        /\ ok_keys # <<>>
        /\ accounts_to_query.elements_vec = ok_keys[1]
        /\ accounts_to_query.elements_set = Range(ok_keys[1])

\* C1 witness: an Ok return after a MissingAccount round (two fetch rounds,
\* no side info refresh) that dropped an address queried at the call's start
\* and the address the failed round added.
C1_Witness ==
    /\ Returned
    /\ ret.tag = "Ok"
    /\ fetch_rounds >= 2
    /\ ~side_info_retried
    /\ accounts_to_query.elements_set # keys_at_call
    /\ accounts_to_query.elements_set \subseteq keys_at_call
    /\ accounts_to_query.elements_vec # <<>>

\* ---- C2

\* The call in progress follows a call that returned Ok with its callback
\* having referenced K, and its callback has read no address outside K.
C2_RepeatsKeys == InCall /\ ok_keys # <<>> /\ ~strayed

\* The call in progress is in its first fetch round, and in its first callback
\* invocation once the fetch is through.
C2_InFirstRound ==
    CASE pc = "loop" -> fetch_rounds = 0 /\ invocations = 0
      [] pc \in {"attempt", "chunks"} -> fetch_rounds = 1 /\ invocations = 0
      [] pc \in {"invoke", "classify"} -> fetch_rounds = 1 /\ invocations = 1
      [] OTHER -> TRUE

\* C2: once a call has returned Ok with its callback referencing the keys K,
\* a later call whose callback references keys of K only, and asks for no
\* side info refresh, never leaves its first fetch round and its first
\* callback invocation: it runs exactly one of each.
C2_SameKeysOneRound ==
    (C2_RepeatsKeys /\ ~side_info_retried) => C2_InFirstRound

\* C2 as stated: the same with nothing said of the side info.
C2_SameKeysOneRoundAsStated ==
    C2_RepeatsKeys => C2_InFirstRound

\* C2 witness: the first invocation of such a call has read all of K, two
\* addresses or more, and nothing else.
C2_Witness ==
    /\ pc = "invoke"
    /\ C2_RepeatsKeys
    /\ ~side_info_retried
    /\ Len(ok_keys[1]) >= 2
    /\ accounts_referenced.elements_set = Range(ok_keys[1])
    /\ fetch_rounds = 1
    /\ invocations = 1

\* ---- C3

InFetch == pc \in {"attempt", "chunks"}

\* What is left of a fetch: the attempts not begun yet, then the batch calls
\* of the attempt in progress.
C3_Variant ==
    LET n == len(accounts_to_query)
    IN  (n + 1 - num_chunks) * (n + 2)
        + (IF pc = "attempt" THEN n + 1 ELSE n + 1 - chunk_index)

\* C3: the chunked fetch terminates.  No assertion of it fails, and every
\* step it takes lowers a variant that never goes below zero, so it leaves
\* the loop after finitely many attempts and batch calls (with a limit of at
\* least 1 that stays as it is, and also with one that changes).
C3_FetchTerminates ==
    /\ [](pc # "panic")
    /\ [](InFetch => C3_Variant >= 0)
    /\ [][(InFetch /\ InFetch' /\ node_changes' = node_changes)
            => C3_Variant' < C3_Variant]_vars

\* C3 witness: a fetch of four keys against a limit that stayed below them
\* has returned, in batches of one key.
C3_Witness ==
    /\ pc = "invoke"
    /\ event.type = "fetched"
    /\ event.arg = 1
    /\ Len(result) = 4
    /\ ~limit_changed

\* ---- C4

\* A step that issues a batch call (and is not a change of the node).
BatchIssued == pc = "chunks" /\ node_changes' = node_changes

\* C4: once the node has rejected a batch as too large, the client issues no
\* batch as large as any batch rejected so far.
C4_LaterBatchesBelowRejected ==
    [][(BatchIssued /\ min_rejected # 0) => event'.arg < min_rejected]_vars

\* C4 as stated: with a limit L that stays as it is, no batch issued after
\* the first rejection holds more than L keys.
C4_LaterBatchesWithinLimit ==
    [][(BatchIssued /\ min_rejected # 0 /\ ~limit_changed)
          => event'.arg <= rpc_max_multiple_accounts]_vars

\* C4 witness: with four keys queried, a batch of two was issued after a
\* rejection and rejected in its turn.
C4_Witness ==
    /\ event.type = "batch_rejected"
    /\ event.arg = 2
    /\ min_rejected = 2
    /\ len(accounts_to_query) = 4
    /\ ~limit_changed

\* ---- C5

\* The step that handles a rejection: `continue 'num_chunks` out of the for.
RejectionHandled == pc = "chunks" /\ pc' = "attempt"

\* C5: max_items_per_call starts at usize::MAX, never rises, changes in the
\* rejection-handling step only, and is strictly lower after each such step.
C5_CeilingOnlyFalls ==
    /\ max_items_per_call = USIZE_MAX
    /\ [][/\ max_items_per_call' <= max_items_per_call
          /\ (max_items_per_call' # max_items_per_call => RejectionHandled)
          /\ (RejectionHandled => max_items_per_call' < max_items_per_call)]_vars

\* C5 witness: the ceiling has fallen to 1 by the rejection of a batch of
\* two, a ceiling of 3 or less having let that batch through.
C5_Witness ==
    /\ pc = "attempt"
    /\ event.type = "batch_rejected"
    /\ max_items_per_call = 1
    /\ num_chunks >= 3

\* ---- C6

\* C6: when the fetch has returned to with_snapshot, its output has one entry
\* per key of accounts_to_query, entry i is the value for key i, and the
\* entries are those the node returned in the last attempt, in that order.
C6_FetchedValuesAligned ==
    pc \in {"invoke", "classify"} =>
        /\ Len(result) = len(accounts_to_query)
        /\ \A i \in 1..Len(result) :
             result[i].address = accounts_to_query.elements_vec[i]
        /\ result = served

\* C6 witness: a fetch in several batches has returned after an attempt that
\* was rejected with part of its batches answered.
C6_Witness ==
    /\ pc = "invoke"
    /\ event.type = "fetched"
    /\ discarded
    /\ Len(result) >= 3
    /\ event.arg < Len(result)

\* ---- C7

\* The callback is about to return MissingAccountError.
FatalNotFound ==
    /\ pc = "classify"
    /\ f_result.tag = "OtherError"
    /\ f_result.err.type = "MissingAccountError"

\* C7: a read of a key that was fetched and reported absent fails with
\* MissingAccountError, and when the callback returns that error with_snapshot
\* returns it with no further fetch round or invocation; every round of the
\* call has had one invocation, so that the read in the first round gives one
\* fetch round and one invocation.
C7_AbsentKeyFatalWithoutRetry ==
    /\ [](FatalNotFound =>
            /\ f_result.err.key \in DOMAIN accounts
            /\ ~accounts[f_result.err.key].exists
            /\ invocations = fetch_rounds)
    /\ [][(/\ pc = "invoke"
           /\ pc' \in {"invoke", "classify"}
           /\ event'.arg \in DOMAIN accounts
           /\ ~accounts[event'.arg].exists)
            => /\ event'.tag = "OtherError"
               /\ pc' = "classify" =>
                    f_result' =
                      SnapshotError_OtherError(MissingAccountError(event'.arg))]_vars
    /\ [][FatalNotFound
            => /\ pc' = "idle"
               /\ ret' = Err(MissingAccountError(f_result.err.key))
               /\ UNCHANGED <<fetch_rounds, invocations>>]_vars

\* C7 as stated: a key queried at the start of the call, reported absent and
\* read, ends the call after one fetch round and one invocation.
C7_AbsentKeyFatalInOneRound ==
    (FatalNotFound /\ f_result.err.key \in keys_at_call)
        => fetch_rounds = 1 /\ invocations = 1

\* C7 witness: with_snapshot returned MissingAccountError for a key queried at
\* the start of the call, after one fetch round and one invocation.
C7_Witness ==
    /\ Returned
    /\ ret.tag = "Err"
    /\ ret.err.type = "MissingAccountError"
    /\ ret.err.key \in keys_at_call
    /\ fetch_rounds = 1
    /\ invocations = 1

\* ---- C8

\* C8: every Snapshot::get_account records its address in accounts_referenced,
\* at the end when it was not there and not at all when it was, whether the
\* read succeeds, finds the account absent, or finds the address unfetched.
C8_EveryReadIsRecorded ==
    [][(pc = "invoke" /\ pc' \in {"invoke", "classify"}) =>
        LET address == event'.arg
            before == accounts_referenced.elements_vec
            after == accounts_referenced'.elements_vec
        IN  /\ event'.type = "get"
            /\ event'.tag \in {"Ok", "OtherError", "MissingAccount"}
            /\ after = IF address \in Range(before)
                       THEN before
                       ELSE Append(before, address)
            /\ accounts_referenced'.elements_set = Range(after)]_vars

\* C8 witness: a read of an unfetched address, after another read, left the
\* address at the end of accounts_referenced.
C8_Witness ==
    /\ pc = "classify"
    /\ f_result.tag = "MissingAccount"
    /\ event.type = "get"
    /\ len(accounts_referenced) >= 2
    /\ accounts_referenced.elements_vec[len(accounts_referenced)] = event.arg
    /\ event.arg \notin DOMAIN accounts

\* ---- C9

\* The errors with_snapshot can return: those its callers treat as fatal.
FatalErrorTypes ==
    {"ClientError", "bincode::ErrorKind", "MissingAccountError",
     "MissingValidatorInfoError"}

\* C9: with_snapshot returns Ok or an error of a fatal class, never
\* MissingAccount; a MissingAccount outcome takes it back to the top of its
\* loop, where the next step is a fetch round.
C9_RetryMissingKeyNeverReturned ==
    /\ [](/\ ret.tag \in {"None", "Ok", "Err"}
          /\ (ret.tag = "Err" => ret.err.type \in FatalErrorTypes))
    /\ [][(pc = "classify" /\ f_result.tag = "MissingAccount")
            => pc' = "loop" /\ ret' = NoResult]_vars
    /\ [][pc = "loop"
            => /\ pc' \in {"attempt", "invoke"}
               /\ fetch_rounds' = fetch_rounds + 1]_vars

\* C9 witness: a MissingAccount outcome in the second round of a call has
\* taken with_snapshot to a third.
C9_Witness ==
    /\ pc = "loop"
    /\ event = Event("classify", 0, "MissingAccount")
    /\ fetch_rounds = 2
    /\ ret = NoResult

\* ---- C10

\* C10: with_snapshot, and the fetch before it, never returns the node's
\* rejection of a batch as too large; the step that receives one goes on to
\* an attempt with a higher num_chunks.
C10_RejectionNeverEscapes ==
    /\ [](ret.tag = "Err" => ret.err.message # TooManyInputsError.message)
    /\ [][(BatchIssued /\ event'.tag = TooManyInputsError.message)
            => /\ pc' = "attempt"
               /\ num_chunks' > num_chunks
               /\ ret' = ret]_vars

\* C10 witness: a second rejection in a fetch has led to a third attempt.
C10_Witness ==
    /\ pc = "attempt"
    /\ event.type = "batch_rejected"
    /\ event.tag = TooManyInputsError.message
    /\ num_chunks = 3
    /\ discarded = FALSE
    /\ min_rejected = event.arg

\* ---- C11

\* The step of Daemon::run that ends a successful poll.
PollSucceeded == daemon_pc = "match" /\ ret.tag = "Ok" /\ daemon_pc' = "sleep"

\* The step of Daemon::run that ends a failed poll.
PollFailed == daemon_pc = "match" /\ ret.tag = "Err" /\ daemon_pc' = "sleep"

\* C11: after every successful poll the daemon's last-success time is the
\* time of that poll: an instant between the start of the poll and the end of
\* its Ok arm.
C11_SuccessMarksLastSuccess ==
    [][PollSucceeded
         => /\ Duration_le(now, last_read_success')
            /\ Duration_le(last_read_success', now')]_vars

\* C11 witness: a poll has failed after a successful one, and its backoff is
\* computed from a last-success time that is still the daemon's creation.
C11_Witness ==
    /\ daemon_pc = "sleep"
    /\ ret.tag = "Err"
    /\ Len(heap) > 1
    /\ Duration_lt(SystemTime_now(last_read_success),
                   heap[snapshot_mutex].produced_at)
    /\ last_read_success = Duration_ZERO

\* ---- C12

\* A failed poll has just computed its backoff delay.
BackoffComputed == daemon_pc = "sleep" /\ ret.tag = "Err"

\* clamp(now - last_read_success, 200ms, 300s), in the words of the claim
StatedTarget ==
    LET since == Duration_sub(now, last_read_success)
    IN  IF Duration_lt(since, Duration_new(0, 200000000))
        THEN Duration_new(0, 200000000)
        ELSE IF Duration_lt(Duration_from_secs(300), since)
             THEN Duration_from_secs(300)
             ELSE since

\* C12: every backoff delay computed after a failed poll lies in [0, target],
\* target being the time since the recorded last_read_success clamped to
\* [200ms, 300s]; in particular it never exceeds 300s.
C12_BackoffWithinStatedTarget ==
    BackoffComputed
      => /\ Duration_le(Duration_ZERO, sleep_time)
         /\ Duration_le(sleep_time, StatedTarget)
         /\ Duration_le(sleep_time, Duration_from_secs(300))

\* C12, its part that the code keeps: the delay is below the target that the
\* code computes, whose limits are the two Durations converted from f32, and
\* so below 300s.
C12_BackoffBelowComputedTarget ==
    BackoffComputed
      => /\ Duration_le(Duration_ZERO, sleep_time)
         /\ Duration_lt(sleep_time, Duration_from_secs(300))
         /\ \E limits \in sleep_time_limits :
              LET since == Duration_sub(now, last_read_success)
                  target == IF Duration_lt(since, limits.min_sleep_time)
                            THEN limits.min_sleep_time
                            ELSE IF Duration_lt(limits.max_sleep_time, since)
                                 THEN limits.max_sleep_time
                                 ELSE since
              IN  Duration_lt(sleep_time, target)

\* C12 witness: the first poll has failed within 200ms of Daemon::new, and
\* the delay drawn is the last Duration before the lower limit of the target,
\* which is over 200ms.
C12_Witness ==
    /\ BackoffComputed
    /\ metrics.errors = 1
    /\ Duration_lt(Duration_sub(now, last_read_success),
                   Duration_new(0, 200000000))
    /\ sleep_time = Duration_new(0, 200000002)

\* ---- C13

\* What a failed poll is to leave alone: the last-success time, the Arc in
\* the Mutex and what it points to, and the daemon's own slot, epoch, version
\* and observation timestamp.
FailedPollFrame ==
    <<last_read_success, snapshot_mutex, heap, metrics.current_slot,
      metrics.current_epoch, metrics.solana_version, metrics.produced_at>>

\* C13: the step that ends a failed poll adds exactly one to the error
\* counter, and neither it nor any step of the poll before it changes the
\* last-success time, the published snapshot or the daemon's slot, epoch,
\* version and observation timestamp; no other step counts an error.
C13_FailedPollFrame ==
    [][~PollSucceeded
         => /\ FailedPollFrame' = FailedPollFrame
            /\ metrics'.errors = metrics.errors + (IF PollFailed THEN 1 ELSE 0)
      ]_vars

\* C13 witness: the second poll has failed after the first succeeded, and the
\* published snapshot is still the one of the first, with no error counted.
C13_Witness ==
    /\ BackoffComputed
    /\ metrics.polls = 2
    /\ metrics.errors = 1
    /\ snapshot_mutex = 2
    /\ heap[snapshot_mutex] = [metrics EXCEPT !.polls = 1, !.errors = 0]

\* ---- C14

\* What write_prometheus writes of a whole Metrics.
Written(m) == <<counters_of(m), gauges_of(m)>>

\* C14: what a reader has written of its clone is, at every moment, the
\* beginning of one whole publication, and its response is one whole
\* publication; a publication is the initial metrics or the metrics of the
\* daemon at the end of a successful poll, and once made it never changes,
\* nor does a reader's clone come to point to another.
C14_ReadersSeeWholeSnapshots ==
    /\ [](\A h \in Handlers :
            \E i \in 1..Len(heap) :
              /\ Len(handlers[h].out) <= 2
              /\ handlers[h].out = SubSeq(Written(heap[i]), 1, Len(handlers[h].out))
              /\ handlers[h].at = "responded" => handlers[h].out = Written(heap[i]))
    /\ heap[1] = initial_metrics
    /\ [][/\ Len(heap') >= Len(heap)
          /\ \A i \in 1..Len(heap) : heap'[i] = heap[i]
          /\ heap' # heap => PollSucceeded /\ heap' = Append(heap, metrics')
          /\ \A h \in Handlers :
               handlers[h].at \in {"cloned", "writing"}
                 => handlers'[h].snapshot = handlers[h].snapshot]_vars

\* C14 witness: a reader has written the counters of its clone of the initial
\* metrics and not yet the gauges, while the daemon has published the metrics
\* of a successful poll.
C14_Witness ==
    \E h \in Handlers :
      /\ handlers[h].at = "writing"
      /\ handlers[h].snapshot = 1
      /\ handlers[h].out = <<counters_of(initial_metrics)>>
      /\ snapshot_mutex = 2
      /\ heap[snapshot_mutex] # heap[handlers[h].snapshot]

\* ---- C15

\* No poll has succeeded: every poll begun has been counted as an error, but
\* for the one under way.
NoPollSucceeded ==
    metrics.polls = metrics.errors + (IF daemon_pc = "match" THEN 1 ELSE 0)

\* Slot 0, epoch 0, no polls, no errors, dated at UNIX_EPOCH.
ZeroMetrics ==
    [current_slot |-> 0, current_epoch |-> 0, solana_version |-> "0.0.0",
     produced_at |-> [secs |-> 0, nanos |-> 0], polls |-> 0, errors |-> 0]

\* C15: as long as no poll has succeeded, however many have failed, the
\* Mutex holds the zero-valued initial metrics, every clone a reader took is
\* of them, and a reader is idle, holds a clone, is writing or has responded:
\* it has no error to give.
C15_InitialMetricsUntilFirstSuccess ==
    NoPollSucceeded
      => /\ heap[snapshot_mutex] = ZeroMetrics
         /\ \A h \in Handlers :
              /\ handlers[h].at \in {"idle", "cloned", "writing", "responded"}
              /\ handlers[h].at # "idle"
                   => heap[handlers[h].snapshot] = ZeroMetrics
              /\ handlers[h].at = "responded"
                   => handlers[h].out = Written(ZeroMetrics)

\* C15 witness: two polls have failed and none succeeded, and a reader has
\* responded with the zero-valued metrics.
C15_Witness ==
    /\ NoPollSucceeded
    /\ daemon_pc = "sleep"
    /\ metrics.errors = 2
    /\ \E h \in Handlers :
         /\ handlers[h].at = "responded"
         /\ handlers[h].out = Written(heap[snapshot_mutex])
         /\ heap[snapshot_mutex].errors = 0

\* ---- C16

\* No element occurs twice in the sequence.
NoDuplicates(vec) ==
    \A i \in 1..Len(vec), j \in 1..Len(vec) : vec[i] = vec[j] => i = j

\* C16: after any sequence of push and union_with, the sequence of an
\* OrderedSet has no duplicates, holds exactly the elements of its set, and
\* lists them in the order of their first insertion; a push of an element
\* already present changes neither the length nor the order.
C16_OrderedSetKeepsFirstInsertionOrder ==
    /\ [](\A name \in OrderedSets :
            /\ NoDuplicates(ordered_sets[name].elements_vec)
            /\ Range(ordered_sets[name].elements_vec)
                 = ordered_sets[name].elements_set
            /\ ordered_sets[name].elements_vec = first_inserted[name])
    /\ [][(/\ ordered_op'.fn = "push"
           /\ ordered_op'.element
                \in Range(ordered_sets[ordered_op'.self].elements_vec))
            => ordered_sets' = ordered_sets]_vars

\* C16 witness: after pushes and a union_with, a push of the element that is
\* first in a longer sequence has left it first.
C16_Witness ==
    /\ ordered_op = [fn |-> "push", self |-> "a", other |-> "a", element |-> 2]
    /\ ordered_sets["a"].elements_vec = <<2, 1, 3>>
    /\ ordered_sets["b"].elements_vec = <<1, 3>>

\* ---- C17

\* C17: self.union_with(other) keeps the previous sequence of self as a
\* prefix, appends exactly the elements of other that were not in self, in
\* the order of other, makes self no longer than the two together, and leaves
\* other as it was.
C17_UnionWithAppendsNewInOrder ==
    [][ordered_op'.fn = "union_with"
         => LET before == ordered_sets[ordered_op'.self].elements_vec
                after == ordered_sets'[ordered_op'.self].elements_vec
                other == ordered_sets[ordered_op'.other]
                IsNew(element) == element \notin Range(before)
            IN  /\ Len(after) >= Len(before)
                /\ SubSeq(after, 1, Len(before)) = before
                /\ SubSeq(after, Len(before) + 1, Len(after))
                     = SelectSeq(other.elements_vec, IsNew)
                /\ Len(after) <= Len(before) + Len(other.elements_vec)
                /\ ordered_sets'[ordered_op'.other] = other
      ]_vars

\* C17 witness: a.union_with(b) has appended 3 and 4, in the order of b, and
\* not 1, which a held.
C17_Witness ==
    /\ ordered_op.fn = "union_with"
    /\ ordered_op.self = "a"
    /\ ordered_sets["a"].elements_vec = <<2, 1, 4, 3>>
    /\ ordered_sets["b"].elements_vec = <<4, 1, 3>>

\* ---- C18

\* The fetch of the worked scenario: keys [A, B, C] = [1, 2, 3], a node whose
\* limit has always been 2, and a first batch call issued with the ceiling
\* still at usize::MAX.
C18_Scenario ==
    /\ accounts_to_query.elements_vec = <<1, 2, 3>>
    /\ rpc_max_multiple_accounts = 2
    /\ ~limit_changed
    /\ batch_calls # <<>>
    /\ batch_calls[1].ceiling = USIZE_MAX

\* The batch calls of the scenario: the addresses of each and the arm its
\* response took.
C18_Calls ==
    <<[chunk |-> <<1, 2, 3>>, arm |-> "TooManyInputs"],
      [chunk |-> <<1>>, arm |-> "Ok"],
      [chunk |-> <<2>>, arm |-> "Ok"],
      [chunk |-> <<3>>, arm |-> "Ok"]>>

\* C18: in the scenario the fetch issues the batch [A, B, C], which is
\* rejected and brings the ceiling to 2, then [A], [B] and [C], which
\* succeed, and no other call; it then returns the three values of A, B, C in
\* this order and warns of a torn read.
C18_WorkedScenario ==
    C18_Scenario
      => /\ Len(batch_calls) <= Len(C18_Calls)
         /\ \A i \in 1..Len(batch_calls) :
              /\ batch_calls[i].chunk = C18_Calls[i].chunk
              /\ batch_calls[i].arm = C18_Calls[i].arm
              /\ i > 1 => batch_calls[i].ceiling = 2
         /\ Len(batch_calls) > 1 => max_items_per_call = 2
         /\ (pc \notin {"attempt", "chunks"})
              => /\ Len(batch_calls) = Len(C18_Calls)
                 /\ Len(result) = 3
                 /\ \A i \in 1..3 : result[i].address = i
         /\ event.type = "fetched" => event.tag = "Warning"

\* C18 witness: the fetch of the scenario has returned after its four calls.
C18_Witness ==
    /\ C18_Scenario
    /\ event.type = "fetched"
    /\ Len(batch_calls) = 4
    /\ batch_calls[4].attempt = 2
    /\ pc = "invoke"

\* ---- C19

\* The batch calls of the attempt that ended the fetch: those of the attempt
\* of the last call.
SuccessfulAttemptCalls ==
    {i \in 1..Len(batch_calls) :
       batch_calls[i].attempt = batch_calls[Len(batch_calls)].attempt}

\* C19: a fetch that has just returned its values has warned of a torn read
\* if and only if the attempt that produced them issued more than one batch
\* call, each of which succeeded.
C19_WarningIffSeveralBatches ==
    event.type = "fetched"
      => /\ (event.tag = "Warning") = (Cardinality(SuccessfulAttemptCalls) > 1)
         /\ \A i \in SuccessfulAttemptCalls : batch_calls[i].arm = "Ok"
         /\ event.tag \in {"Warning", ""}

\* C19 witness: a fetch with no rejected call, the ceiling being known, has
\* taken two batch calls and warned.
C19_Witness ==
    /\ event.type = "fetched"
    /\ event.tag = "Warning"
    /\ Len(batch_calls) = 2
    /\ \A i \in 1..Len(batch_calls) : batch_calls[i].arm = "Ok"

\* ---- C20

\* The step of with_snapshot that takes the arm Err(MissingAccount).
RetryMissingKey == pc = "classify" /\ f_result.tag = "MissingAccount"

\* C20: on MissingAccount the new accounts_to_query lists the keys referenced
\* in the round, in the order of first reference, then the keys of the
\* previous accounts_to_query that the round did not reference, in their
\* previous order; its set is the union of the two, so no key is lost.
C20_RetryKeepsKnownKeys ==
    [][RetryMissingKey
         => LET referenced == accounts_referenced.elements_vec
                previous == accounts_to_query.elements_vec
                NotReferenced(key) == key \notin Range(referenced)
            IN  /\ accounts_to_query'.elements_vec
                     = referenced \o SelectSeq(previous, NotReferenced)
                /\ accounts_to_query'.elements_set
                     = Range(referenced) \cup Range(previous)
                /\ Range(previous) \subseteq Range(accounts_to_query'.elements_vec)
      ]_vars

\* C20 witness: a round that fetched key 1 and read key 2 only has made the
\* query [2, 1].
C20_Witness ==
    /\ event = Event("classify", 0, "MissingAccount")
    /\ pc = "loop"
    /\ accounts_to_query.elements_vec = <<2, 1>>

\* ---- C21

\* Where key stands in vec.
Position(vec, key) == CHOOSE i \in 1..Len(vec) : vec[i] = key

\* C21 as stated: on MissingAccount every key that the round discovered
\* stands, in the new accounts_to_query, after every key of the previous one.
C21_NewKeysAfterKnownKeys ==
    [][RetryMissingKey
         => LET previous == accounts_to_query.elements_vec
                after == accounts_to_query'.elements_vec
            IN  \A new \in Range(after) \ Range(previous), known \in Range(previous) :
                  /\ known \in Range(after)
                  /\ Position(after, new) > Position(after, known)
      ]_vars

\* C21: on MissingAccount every key that the round discovered is in the new
\* accounts_to_query, before every key of the previous one that the round
\* did not reference; it stands after a key of the previous one only if the
\* round referenced that key before it.
C21_NewKeysBeforeUnreferencedKnownKeys ==
    [][RetryMissingKey
         => LET previous == accounts_to_query.elements_vec
                referenced == accounts_referenced.elements_vec
                after == accounts_to_query'.elements_vec
            IN  \A new \in Range(referenced) \ Range(previous) :
                  /\ new \in Range(after)
                  /\ \A known \in Range(previous) :
                       /\ known \in Range(after)
                       /\ (Position(after, known) < Position(after, new))
                            = (/\ known \in Range(referenced)
                               /\ Position(referenced, known)
                                    < Position(referenced, new))
      ]_vars

\* C21 witness: a call that began with key 2 to query has discovered key 1 in
\* its first round, and key 1 now stands before key 2.
C21_Witness ==
    /\ event = Event("classify", 0, "MissingAccount")
    /\ pc = "loop"
    /\ fetch_rounds = 1
    /\ keys_at_call = {2}
    /\ accounts_to_query.elements_vec = <<1, 2>>

\* ---- C22

\* The step by which a call that had no side-info retry returns Ok.
ReturnsOkWithoutSideInfoRetry ==
    /\ pc = "invoke"
    /\ pc' = "idle"
    /\ ret'.tag = "Ok"
    /\ ~side_info_retried

\* C22 as stated, the universe being the keys the callback read in the call:
\* a call with no side-info retry that returns Ok has invoked the callback
\* at most |U| - |accounts_to_query at the call| + 1 times.
C22_InvocationsWithinUniverseMinusInitial ==
    [][ReturnsOkWithoutSideInfoRetry
         => invocations
              <= Cardinality(call_keys) - Cardinality(keys_at_call) + 1
      ]_vars

\* C22: every MissingAccount round replaces accounts_to_query by a strict
\* superset; and a call with no side-info retry has invoked the callback, at
\* any moment and when it returns Ok, at most once more than the number of
\* keys the callback read that were not in accounts_to_query at the call.
C22_RetryGrowsQueryAndBoundsInvocations ==
    [][/\ RetryMissingKey
            => /\ accounts_to_query.elements_set
                    \subseteq accounts_to_query'.elements_set
               /\ accounts_to_query.elements_set
                    # accounts_to_query'.elements_set
       /\ InCall /\ ~side_info_retried
            => invocations <= Cardinality(call_keys \ keys_at_call) + 1
       /\ ReturnsOkWithoutSideInfoRetry
            => invocations <= Cardinality(call_keys \ keys_at_call) + 1
      ]_vars

\* C22 witness: a call that began with key 1 to query has returned Ok from
\* its third invocation, having discovered keys 2 and 3 one round after the
\* other.
C22_Witness ==
    /\ event = Event("return", 0, "Ok")
    /\ pc = "idle"
    /\ ~side_info_retried
    /\ keys_at_call = {1}
    /\ invocations = 3
    /\ accounts_to_query.elements_vec = <<1, 2, 3>>

\* ---- C23

\* The step by which a round of with_snapshot goes from its fetch to f.
RoundInvokes == pc # "invoke" /\ pc' = "invoke"

\* The step in which f reads an account of the round's snapshot.
RoundReads == pc = "invoke" /\ event'.type = "get"

\* C23: accounts_to_query does not change between the beginning of a round
\* and the return of f; f is called with a map whose keys are exactly those
\* of accounts_to_query and with an empty referenced set; a read in the round
\* yields MissingAccount exactly when its key is not in accounts_to_query, and
\* the fatal MissingAccountError only when its key is in it.
C23_RoundMapIsTheQuery ==
    [][/\ pc \in {"loop", "attempt", "chunks"} \/ (pc = "invoke" /\ pc' # "idle")
            => accounts_to_query' = accounts_to_query
       /\ RoundInvokes
            => /\ DOMAIN accounts' = accounts_to_query.elements_set
               /\ accounts_referenced' = OrderedSet_new
       /\ pc = "invoke"
            => DOMAIN accounts = accounts_to_query.elements_set
       /\ RoundReads
            => /\ (event'.tag = "MissingAccount")
                    = (event'.arg \notin accounts_to_query.elements_set)
               /\ event'.tag = "OtherError"
                    => event'.arg \in accounts_to_query.elements_set
               /\ event'.tag = "Ok"
                    => event'.arg \in accounts_to_query.elements_set
       /\ FatalNotFound
            => f_result.err.key \in accounts_to_query.elements_set
      ]_vars

\* C23 witness: in the second round of a call, whose query is [1], f has read
\* key 1 and then key 2, and the read of key 2 has yielded MissingAccount.
C23_Witness ==
    /\ event = Event("get", 2, "MissingAccount")
    /\ pc = "classify"
    /\ fetch_rounds = 2
    /\ accounts_to_query.elements_vec = <<1>>
    /\ DOMAIN accounts = {1}
    /\ accounts_referenced.elements_vec = <<1, 2>>

\* ---- C24

\* The step in which with_snapshot matches a fatal error that a read of f
\* failed with, and the one in which it matches a fatal error of f's own.
FatalFromRead == pc = "classify" /\ f_result.tag = "OtherError"
FatalFromCallback == pc = "invoke" /\ event' = Event("return", 0, "OtherError")

\* C24: when f returns Err(OtherError(err)), with_snapshot returns Err(err) in
\* that step, with no fetch round or invocation added, and accounts_to_query
\* is left as the round found it: neither the round's referenced keys are
\* merged in nor is it set back to its value at the call.
C24_FatalErrorReturnsAtOnce ==
    [][FatalFromRead \/ FatalFromCallback
         => /\ pc' = "idle"
            /\ FatalFromRead => ret' = Err(f_result.err)
            /\ FatalFromCallback
                 => \E r \in CallbackReturns :
                      r.tag = "OtherError" /\ ret' = Err(r.err)
            /\ accounts_to_query' = accounts_to_query
            /\ fetch_rounds' = fetch_rounds
            /\ invocations' = invocations
      ]_vars

\* C24 witness: a call that began with nothing to query and discovered key 1
\* in its first round has returned, from its second round, the error of the
\* missing account 1; accounts_to_query is [1].
C24_Witness ==
    /\ event = Event("classify", 0, "OtherError")
    /\ pc = "idle"
    /\ ret = Err(MissingAccountError(1))
    /\ fetch_rounds = 2
    /\ invocations = 2
    /\ keys_at_call = {}
    /\ accounts_to_query.elements_vec = <<1>>

\* ---- C25

\* The step in which a get_multiple_accounts call fails for another reason
\* than the number of its addresses.
BatchFails ==
    /\ BatchIssued
    /\ event'.tag \in {e.message : e \in TransportErrors}

\* C25: when a get_multiple_accounts call fails for another reason than the
\* number of its addresses, with_snapshot returns that error in the same step:
\* no batch call, fetch round or invocation follows in the call,
\* accounts_to_query is unchanged, and max_items_per_call keeps what the fetch
\* has learned.
C25_BatchFailureReturnsAtOnce ==
    [][BatchFails
         => /\ event'.type = "batch_failed"
            /\ pc' = "idle"
            /\ \E e \in TransportErrors :
                 e.message = event'.tag /\ ret' = Err(e)
            /\ accounts_to_query' = accounts_to_query
            /\ max_items_per_call' = max_items_per_call
            /\ fetch_rounds' = fetch_rounds
            /\ invocations' = invocations
      ]_vars

\* C25 witness: the first fetch of a client that had keys to get learned the
\* ceiling 1 from a rejected batch of two, and then a batch call of it
\* failed; the call has returned that error and the ceiling is still 1.
C25_Witness ==
    /\ event.type = "batch_failed"
    /\ pc = "idle"
    /\ ret.tag = "Err"
    /\ ret.err \in TransportErrors
    /\ keys_at_call = {}
    /\ fetch_rounds = 2
    /\ invocations = 1
    /\ max_items_per_call = 1
    /\ len(accounts_to_query) = 2

\* ---- C26

\* The step in which with_snapshot matches Err(MissingValidatorIdentity(id))
\* returned by f; the event holds id.
RetryMissingSideInfo ==
    /\ pc = "invoke"
    /\ event'.type = "return"
    /\ event'.tag = "MissingValidatorIdentity"

\* C26: on MissingValidatorIdentity(id) the validator info addresses are
\* fetched anew.  When that fails, with_snapshot returns the failure and the
\* addresses are as before; when id is not among the new addresses, it
\* returns MissingValidatorInfoError(id); else it goes to the top of its
\* loop.  In each case accounts_to_query is unchanged, and the step adds no
\* fetch round and no invocation.
C26_SideInfoRetry ==
    [][RetryMissingSideInfo
         => /\ event'.arg \in Identities
            /\ accounts_to_query' = accounts_to_query
            /\ fetch_rounds' = fetch_rounds
            /\ invocations' = invocations
            /\ \/ /\ pc' = "idle"
                  /\ \E e \in GetVersionErrors : ret' = Err(e)
                  /\ validator_info_addrs' = validator_info_addrs
               \/ /\ pc' = "idle"
                  /\ ret' = Err(MissingValidatorInfoError(event'.arg))
                  /\ event'.arg \notin validator_info_addrs'
               \/ /\ pc' = "loop"
                  /\ ret' = NoResult
                  /\ event'.arg \in validator_info_addrs'
      ]_vars

\* C26 witness: f, having read key 1 of a query that is [1], returned
\* MissingValidatorIdentity(1); the new addresses hold identity 1 and
\* with_snapshot is at the top of its loop, the query still [1].
C26_Witness ==
    /\ event = Event("return", 1, "MissingValidatorIdentity")
    /\ pc = "loop"
    /\ validator_info_addrs = {1}
    /\ accounts_to_query.elements_vec = <<1>>
    /\ keys_at_call = {1}
    /\ call_keys = {}
    /\ side_info_retried

\* ---- C27

\* The pass through the head of the 'num_chunks loop whose items_per_chunk is
\* above max_items_per_call.
AttemptAboveCeiling ==
    /\ pc = "attempt"
    /\ items_per_chunk(accounts_to_query, num_chunks) > max_items_per_call

\* C27: every get_multiple_accounts call has at most max_items_per_call
\* addresses, max_items_per_call being read when the call is issued; and an
\* attempt whose items_per_chunk is above max_items_per_call issues no call
\* and gives way to the next attempt.
C27_BatchesWithinCeiling ==
    /\ [](\A i \in 1..Len(batch_calls) :
            /\ Len(batch_calls[i].chunk) >= 1
            /\ Len(batch_calls[i].chunk) <= batch_calls[i].ceiling)
    /\ [][BatchIssued
            => /\ event'.arg <= max_items_per_call
               /\ items_per_chunk(accounts_to_query, num_chunks)
                    <= max_items_per_call]_vars
    /\ [][AttemptAboveCeiling
            => /\ pc' = "attempt"
               /\ num_chunks' = num_chunks + 1
               /\ batch_calls' = batch_calls
               /\ event'.type = "skip"]_vars

\* C27 witness: with the ceiling 1 known, the fetch of four keys issued no
\* call in its attempts with items_per_chunk 4 and 2, and the first call of
\* its third attempt, with one key, was issued and answered.
C27_Witness ==
    /\ pc = "chunks"
    /\ len(accounts_to_query) = 4
    /\ max_items_per_call = 1
    /\ num_chunks = 3
    /\ Len(batch_calls) = 1
    /\ batch_calls[1] = [attempt |-> 3, ceiling |-> 1,
                         chunk |-> SubSeq(accounts_to_query.elements_vec, 1, 1),
                         arm |-> "Ok"]

\* ---- C28

\* The place of the i-th batch call of the fetch among those of its attempt.
IndexInAttempt(i) ==
    Cardinality({j \in 1..i : batch_calls[j].attempt = batch_calls[i].attempt})

\* The addresses of the batch calls of the attempt of the last call, in the
\* order of the calls.
RECURSIVE Concatenation(_)
Concatenation(calls) ==
    IF calls = <<>> THEN <<>>
    ELSE Head(calls).chunk \o Concatenation(Tail(calls))
LastAttemptCalls ==
    LET OfLastAttempt(call) ==
            call.attempt = batch_calls[Len(batch_calls)].attempt
    IN  SelectSeq(batch_calls, OfLastAttempt)

\* C28: with N keys to query, the i-th batch call of the attempt with
\* num_chunks = k has the keys (i-1)s+1 .. min(is, N) of accounts_to_query,
\* where s = N / k rounded down: s keys when more keys follow, else
\* between 1 and s.  When the fetch returns its values, the attempt that
\* produced them has issued N / s rounded up calls, and their addresses one
\* after the other are accounts_to_query.
C28_BatchesPartitionTheQuery ==
    LET query == accounts_to_query.elements_vec
        N == Len(query)
    IN  /\ \A i \in 1..Len(batch_calls) :
             LET s == N \div batch_calls[i].attempt
                 place == IndexInAttempt(i)
                 chunk == batch_calls[i].chunk
             IN  /\ s >= 1
                 /\ (place - 1) * s < N
                 /\ chunk = [j \in 1..(Min(place * s, N) - (place - 1) * s)
                               |-> query[(place - 1) * s + j]]
                 /\ Len(chunk) >= 1
                 /\ Len(chunk) <= s
                 /\ place * s < N => Len(chunk) = s
                 /\ i > 1 /\ batch_calls[i - 1].attempt # batch_calls[i].attempt
                      => batch_calls[i - 1].attempt < batch_calls[i].attempt
        /\ (event.type = "fetched" /\ batch_calls # <<>>)
             => LET s == N \div batch_calls[Len(batch_calls)].attempt
                IN  /\ Len(LastAttemptCalls) = (N + s - 1) \div s
                    /\ Concatenation(LastAttemptCalls) = query
                    /\ \A i \in 1..Len(LastAttemptCalls) :
                         LastAttemptCalls[i].arm = "Ok"

\* C28 witness: a fetch of five keys has returned from its attempt with
\* num_chunks = 2, whose calls had the keys [1, 2], [3, 4] and [5].
C28_Witness ==
    /\ event.type = "fetched"
    /\ len(accounts_to_query) = 5
    /\ Len(LastAttemptCalls) = 3
    /\ LastAttemptCalls[1].attempt = 2
    /\ LastAttemptCalls[1].chunk = <<1, 2>>
    /\ LastAttemptCalls[2].chunk = <<3, 4>>
    /\ LastAttemptCalls[3].chunk = <<5>>

\* ---- C29

\* The step in which the node rejects a get_multiple_accounts call for the
\* number of its addresses, which the event holds.
BatchRejected ==
    /\ BatchIssued
    /\ event'.tag = TooManyInputsError.message

\* C29: when a call of c addresses is rejected as too large,
\* max_items_per_call becomes c - 1 and the next attempt, with num_chunks one
\* higher, is what follows: the call is the last of its attempt, the head of
\* every attempt empties result, and during an attempt result holds the
\* values of the calls of that attempt only.
C29_RejectionEndsTheAttempt ==
    /\ [][BatchRejected
            => /\ event'.type = "batch_rejected"
               /\ max_items_per_call' = event'.arg - 1
               /\ pc' = "attempt"
               /\ num_chunks' = num_chunks + 1
               /\ Len(batch_calls') = Len(batch_calls) + 1
               /\ batch_calls'[Len(batch_calls')].arm = "TooManyInputs"
               /\ Len(batch_calls'[Len(batch_calls')].chunk) = event'.arg]_vars
    /\ [][pc = "attempt" => result' = <<>>]_vars
    /\ [](\A i \in 1..(Len(batch_calls) - 1) :
            batch_calls[i].arm = "TooManyInputs"
              => batch_calls[i + 1].attempt > batch_calls[i].attempt)
    /\ [](pc = "chunks"
            => /\ Len(result)
                   = (chunk_index - 1) * (len(accounts_to_query) \div num_chunks)
               /\ \A j \in 1..Len(result) :
                    result[j].address = accounts_to_query.elements_vec[j])

\* C29 witness: of the six keys of a fetch, the first three were sent in the
\* attempt with num_chunks = 2 and rejected; max_items_per_call is 2 and the
\* attempt with num_chunks = 3 is next, the keys 4 to 6 never sent in halves.
C29_Witness ==
    /\ event = Event("batch_rejected", 3, TooManyInputsError.message)
    /\ pc = "attempt"
    /\ len(accounts_to_query) = 6
    /\ max_items_per_call = 2
    /\ num_chunks = 3
    /\ Len(batch_calls) = 1
    /\ batch_calls[1].chunk = <<1, 2, 3>>

\* ---- C30

\* C30: against a node that accepts the calls of up to
\* rpc_max_multiple_accounts >= 1 addresses and answers them with one value
\* for each, neither assertion of get_multiple_accounts_chunked fails, every
\* attempt has num_chunks <= N and so items_per_chunk >= 1, N being the
\* number of keys to query, and the for over num_chunks is left by return
\* only.
C30_FetchNeverPanics ==
    /\ rpc_max_multiple_accounts >= 1
    /\ pc # "panic"
    /\ event.type # "assert"
    /\ InFetch
         => /\ len(accounts_to_query) >= 1
            /\ num_chunks >= 1
            /\ num_chunks <= len(accounts_to_query)
            /\ items_per_chunk(accounts_to_query, num_chunks) >= 1
            /\ max_items_per_call >= 1
    /\ event.type = "fetched" => Len(result) = len(accounts_to_query)

\* C30 witness: a node of limit 1 has rejected six, three and two of the six
\* keys of a fetch, and the attempt with num_chunks = 4, of six calls with
\* one key, has returned their values.
C30_Witness ==
    /\ event.type = "fetched"
    /\ len(accounts_to_query) = 6
    /\ rpc_max_multiple_accounts = 1
    /\ ~limit_changed
    /\ max_items_per_call = 1
    /\ Len(batch_calls) = 9
    /\ batch_calls[1].ceiling = USIZE_MAX
    /\ batch_calls[9].attempt = 4
    /\ Len(result) = 6

\* ---- C31

\* A fetch of N keys is settled: each of its attempts that the node would
\* reject, whose items_per_chunk N / k is above the node's limit, is above
\* max_items_per_call too, and so is skipped.
Settled(N, ceiling, limit) ==
    \A k \in 1..N : (N \div k > limit) => (N \div k > ceiling)

\* The step in which a fetch returns its values.
FetchSucceeds == InFetch /\ event'.type = "fetched"

\* C31: while the node has had one limit, a fetch of N keys that returns its
\* values leaves the fetches of N keys settled; a settled size stays settled,
\* whatever is fetched; and no call of a fetch of a settled size is rejected
\* as too large, so that its first attempt that is not skipped is its last.
\* Together: once a fetch of N keys has returned its values, no call of a
\* later fetch of N keys is rejected as too large.
C31_DiscoveryIsPaidOnce ==
    /\ [][FetchSucceeds /\ ~limit_changed'
            => Settled(len(accounts_to_query), max_items_per_call',
                       rpc_max_multiple_accounts')]_vars
    /\ [][~limit_changed'
            => \A N \in 1..MaxKeys :
                 Settled(N, max_items_per_call, rpc_max_multiple_accounts)
                   => Settled(N, max_items_per_call',
                              rpc_max_multiple_accounts')]_vars
    /\ [][(/\ BatchIssued
           /\ ~limit_changed
           /\ Settled(len(accounts_to_query), max_items_per_call,
                      rpc_max_multiple_accounts))
            => /\ event'.tag # TooManyInputsError.message
               /\ event'.type \in {"batch_ok", "fetched", "batch_failed"}
               /\ max_items_per_call' = max_items_per_call]_vars

\* C31 witness: a call fetched its three keys from a node of limit 2, which
\* rejected them as one batch; f asked for side info, and the second fetch of
\* the three keys has returned from the attempt with num_chunks = 2, no call
\* of it rejected.
C31_Witness ==
    /\ event.type = "fetched"
    /\ pc = "invoke"
    /\ ~limit_changed
    /\ rpc_max_multiple_accounts = 2
    /\ side_info_retried
    /\ len(accounts_to_query) = 3
    /\ min_rejected = 3
    /\ max_items_per_call = 2
    /\ Len(batch_calls) = 3
    /\ \A i \in 1..3 : batch_calls[i].arm = "Ok" /\ batch_calls[i].attempt = 2

\* ---- C32

\* The polls that have succeeded: each of them, and nothing else, has
\* allocated one Metrics after the one of Daemon::new.
SuccessfulPolls == Len(heap) - 1

\* C32: metrics.polls changes only in the step that begins an iteration of
\* Daemon::run and enters with_snapshot, where it rises by one, and every
\* iteration begins with that step; errors <= polls always; between two
\* iterations polls is the number of successful polls plus errors, and
\* during one it is one more.
C32_PollsCounted ==
    /\ [][metrics'.polls # metrics.polls
            => /\ metrics'.polls = metrics.polls + 1
               /\ daemon_pc = "loop"
               /\ daemon_pc' = "match"
               /\ pc = "idle"
               /\ pc' = "loop"
               /\ fetch_rounds' = 0
               /\ invocations' = 0]_vars
    /\ [][daemon_pc = "loop" /\ daemon_pc' # "loop"
            => metrics'.polls = metrics.polls + 1]_vars
    /\ [](metrics.errors <= metrics.polls)
    /\ [](daemon_pc \in {"sleep", "loop"}
            => metrics.polls = SuccessfulPolls + metrics.errors)
    /\ [](daemon_pc = "match"
            => metrics.polls = SuccessfulPolls + metrics.errors + 1)

\* C32 witness: the third poll, after a failed and a successful one, has
\* failed, and the daemon is about to sleep.
C32_Witness ==
    /\ daemon_pc = "sleep"
    /\ metrics.polls = 3
    /\ metrics.errors = 2
    /\ SuccessfulPolls = 1
    /\ heap[2].polls = 2
    /\ heap[2].errors = 1

\* ---- C33

\* The Metrics that the Arc in the mutex points to.
PublishedMetrics == heap[snapshot_mutex]

\* C33: the step that ends a successful poll publishes the daemon's metrics
\* as they are after it: the slot, epoch and version that the poll returned,
\* and the poll and error counters, which the step leaves as they were.  The
\* published counters are never above the daemon's, and a publication never
\* lowers either of them.
C33_PublicationIsTheDaemonsMetrics ==
    /\ [][PollSucceeded
            => /\ PublishedMetrics' = metrics'
               /\ metrics'.current_slot = ret.value[1]
               /\ metrics'.current_epoch = ret.value[2]
               /\ metrics'.solana_version = ret.value[3]
               /\ metrics'.polls = metrics.polls
               /\ metrics'.errors = metrics.errors]_vars
    /\ [](/\ PublishedMetrics.polls <= metrics.polls
          /\ PublishedMetrics.errors <= metrics.errors)
    /\ [][/\ PublishedMetrics'.polls >= PublishedMetrics.polls
          /\ PublishedMetrics'.errors >= PublishedMetrics.errors
          /\ PublishedMetrics' # PublishedMetrics => PollSucceeded]_vars

\* C33 witness: the second poll succeeded after the first had failed, and
\* the publication holds both polls and the error.
C33_Witness ==
    /\ daemon_pc = "sleep"
    /\ sleep_time = POLL_INTERVAL
    /\ metrics.polls = 2
    /\ metrics.errors = 1
    /\ PublishedMetrics = metrics
    /\ Len(heap) = 2
    /\ heap[1].errors = 0

\* ---- C34

\* An http handler thread that has its clone and is writing its response.
Rendering(h) == handlers[h].at = "cloned"

\* C34: the main thread holds the guard of the mutex exactly between its
\* lock and its store of the new Arc, so not during with_snapshot, the
\* computation of the sleep time or the sleep; an http handler thread holds
\* it exactly between its lock and its clone, so not while it renders.  The
\* thread that holds the guard can always take the step that drops it, some
\* thread can always take a step, and the main thread waits at its lock only
\* while an http handler thread is between its lock and its clone.
C34_MutexHeldForClonesAndStoresOnly ==
    /\ (mutex_guard = MainThread) = (daemon_pc = "store")
    /\ \A h \in LockingHandlers :
         /\ (mutex_guard = HandlerThread(h)) = (handlers[h].at = "locked")
         /\ Rendering(h) => mutex_guard # HandlerThread(h)
    /\ pc # "idle" => mutex_guard # MainThread
    /\ daemon_pc \in {"loop", "match", "sleep", "lock"}
         => mutex_guard # MainThread
    /\ mutex_guard \in {NoThread, MainThread}
                        \cup {HandlerThread(h) : h \in LockingHandlers}
    /\ mutex_guard = MainThread => ENABLED PublishStore
    /\ mutex_guard # NoThread
         => ENABLED (MutexNext /\ mutex_guard' = NoThread)
    /\ ENABLED MutexNext
    /\ (daemon_pc = "lock" /\ ~ENABLED PublishLock)
         => \E h \in LockingHandlers : handlers[h].at = "locked"
    /\ (daemon_pc = "lock" /\ \A h \in LockingHandlers :
                                handlers[h].at \in {"idle", "cloned"})
         => ENABLED PublishLock

\* C34 witness: the main thread holds the guard for its second store while
\* one http handler thread renders the Metrics of the first and the other
\* waits for a request.
C34_Witness ==
    /\ daemon_pc = "store"
    /\ mutex_guard = MainThread
    /\ Len(heap) = 3
    /\ snapshot_mutex = 2
    /\ Rendering(1)
    /\ handlers[1].snapshot = 2
    /\ handlers[2].at = "idle"

\* ---- C35

\* The pass through the head of the 'num_chunks loop whose calls the node
\* would accept.
AttemptWithinLimit ==
    /\ pc = "attempt"
    /\ items_per_chunk(accounts_to_query, num_chunks) >= 1
    /\ items_per_chunk(accounts_to_query, num_chunks) <= rpc_max_multiple_accounts

\* C35: as long as the node has had one limit, max_items_per_call is at least
\* that limit, and an attempt whose items_per_chunk is within the limit is not
\* skipped.
C35_CeilingNeverBelowLimit ==
    /\ [](~limit_changed => max_items_per_call >= rpc_max_multiple_accounts)
    /\ [][(AttemptWithinLimit /\ ~limit_changed)
            => /\ pc' = "chunks"
               /\ event'.type = "attempt"
               /\ num_chunks' = num_chunks]_vars

\* C35 witness: a node of limit 2 has rejected a call with three keys;
\* max_items_per_call is 2.
C35_Witness ==
    /\ event = Event("batch_rejected", 3, TooManyInputsError.message)
    /\ ~limit_changed
    /\ rpc_max_multiple_accounts = 2
    /\ max_items_per_call = 2
    /\ pc = "attempt"

\* ---- C36

\* get_multiple_accounts_chunked is entered with nothing to query.
EmptyFetch == pc = "loop" /\ len(accounts_to_query) = 0

\* C36: a fetch with an empty accounts_to_query makes no batch call, returns
\* the empty Vec without a warning and leaves max_items_per_call as it was;
\* the callback of the round is then invoked on an empty map of accounts.
C36_EmptyQueryFetchesNothing ==
    [][EmptyFetch
        => /\ event' = Event("fetched", 0, "")
           /\ batch_calls' = <<>>
           /\ result' = <<>>
           /\ served' = <<>>
           /\ max_items_per_call' = max_items_per_call
           /\ min_rejected' = min_rejected
           /\ accounts_to_query' = accounts_to_query
           /\ pc' = "invoke"
           /\ invocations' = invocations + 1
           /\ fetch_rounds' = fetch_rounds + 1
           /\ DOMAIN accounts' = {}
           /\ accounts_referenced' = OrderedSet_new
           /\ \A address \in Keys :
                get_account_result(accounts', address) = SnapshotError_MissingAccount]_vars

\* C36 witness: a client that has learned a ceiling of 2 and whose last call
\* referenced nothing has fetched its empty query; the callback is about to
\* run.
C36_Witness ==
    /\ pc = "invoke"
    /\ event = Event("fetched", 0, "")
    /\ len(accounts_to_query) = 0
    /\ max_items_per_call = 2
    /\ fetch_rounds = 1
    /\ invocations = 1
    /\ batch_calls = <<>>
    /\ accounts = <<>>

\* ---- C37

\* Times since last_read_success, from none at all to beyond max_sleep_time.
ElapsedTimes ==
    {Duration_ZERO, Duration_new(0, 1), Duration_new(0, 199999999),
     Duration_from_secs(7), Duration_from_secs(301)}

\* The range 0..target is not empty, its target being at least 200ms, and
\* what is drawn from it is below the target.
DrawDefined(target) ==
    LET range == gen_range(Duration_ZERO, target)
    IN  /\ Duration_le(Duration_new(0, 200000000), target)
        /\ range # {}
        /\ \A d \in range : Duration_le(Duration_ZERO, d) /\ Duration_lt(d, target)

\* A poll has failed and its Err arm is about to compute the backoff.
BackoffDue == daemon_pc = "match" /\ pc = "idle" /\ ret.tag = "Err"

\* C37: when a failed poll computes its backoff, the target is at least 200ms
\* whatever the time since last_read_success, none included, so the range
\* 0..target that the delay is drawn from is not empty; and the delay drawn is
\* below the target.
C37_BackoffRangeNeverEmpty ==
    /\ BackoffDue
         => /\ \A limits \in sleep_time_limits :
                 \A e \in ElapsedTimes
                          \cup {elapsed(last_read_success, Duration_add(now, d)) :
                                  d \in Elapses} :
                   DrawDefined(target_sleep_time(e, limits))
            /\ \A d \in Elapses :
                 get_sleep_time_after_error(Duration_add(now, d)) # {}
    /\ BackoffComputed
         => \E limits \in sleep_time_limits :
              LET target == target_sleep_time(elapsed(last_read_success, now),
                                              limits)
              IN  /\ Duration_le(Duration_new(0, 200000000), target)
                  /\ sleep_time \in gen_range(Duration_ZERO, target)
                  /\ Duration_lt(sleep_time, target)

\* C37 witness: the first poll has failed 50ms after Daemon::new, the target
\* is the lower limit, and the delay drawn is the middle of the range.
C37_Witness ==
    /\ BackoffComputed
    /\ metrics.polls = 1
    /\ metrics.errors = 1
    /\ elapsed(last_read_success, now) = Duration_new(0, 50000000)
    /\ sleep_time = Duration_new(0, 100000001)

====
